---- MODULE Spec2Model ----
(***************************************************************************)
(* Model of check_brackets.py: check_parentheses_balance(filename) reads a *)
(* text file with readlines() and scans it character by character with a   *)
(* stack of (char, line, column) records.                                  *)
(*                                                                         *)
(* A character is a one-character string.  A printed line is the tuple of  *)
(* the literal pieces and the interpolated values of its f-string, in the  *)
(* order they are printed.  The value returned by the function is "True"   *)
(* or "False" ("unset" while it has not returned).                         *)
(***************************************************************************)
EXTENDS Integers, Sequences, FiniteSets, TLC

(* Bound on the number of characters of the file. *)
MaxChars == 4

(* Bound on the number of characters appended to an input when it is       *)
(* compared with its extensions.                                           *)
MaxSuffix == 1

(* The characters a file is made of: the six brackets, an ordinary         *)
(* character and the line terminator.                                      *)
Chars == {"(", ")", "[", "]", "{", "}", "a", "\n"}

RECURSIVE StringsUpTo(_)
StringsUpTo(n) ==
    IF n = 0 THEN {<<>>}
    ELSE LET S == StringsUpTo(n - 1)
         IN S \cup {Append(s, c) : s \in {t \in S : Len(t) = n - 1}, c \in Chars}

Contents == StringsUpTo(MaxChars)

(* the character sequences appended to an input to extend it *)
Suffixes == StringsUpTo(MaxSuffix)

VARIABLES
    content,    \* the characters of the file named by filename
    lines,      \* lines = f.readlines()
    pc,         \* "start", "scan" (in the loops), "done" (returned), "raised"
    i,          \* line number of the character to examine next (from 1)
    j,          \* column of the character to examine next (from 0)
    stack,      \* the list of (char, i, j) records, top at the end
    out,        \* the lines printed to standard output, in order
    result,     \* the value returned
    exc,        \* the exception that ended the call, "none" if none
    examined    \* history: the positions <<i, j>> examined so far, in order

(* the names of one call of check_parentheses_balance *)
scanvars == <<content, lines, pc, i, j, stack, out, result, exc, examined>>

VARIABLES
    prev,       \* history: the result and output of the earlier calls, in order
    peer        \* the names of a second call running at the same time

callvars == <<prev, peer>>

VARIABLES
    argv,       \* sys.argv of the script
    files,      \* the content of each file of the file system
    filename,   \* the file name the script passes to the function
    checked,    \* history: the file names passed to the function, in order
    status      \* the exit status of the script, -1 while it runs

mainvars == <<argv, files, filename, checked, status>>

VARIABLES
    branches,   \* the local branches of the git repository
    upstream,   \* the branches that have an upstream tracking branch
    remote,     \* the branch names that a remote offers
    head,       \* the branch that is checked out
    base,       \* history: <<b, h>> for a branch b created while h was checked out
    merged,     \* history: <<b, h>> for a branch b merged while h was checked out
    executed,   \* history: the git commands run by the latest operation, in order
    gitop,      \* the latest operation of GitBranching and its argument
    gitret,     \* the command it returned, <<>> if none
    gitexc,     \* the exception it raised, "none" if none
    ops         \* the number of operations so far

gitvars == <<branches, upstream, remote, head, base, merged, executed, gitop, gitret, gitexc, ops>>

VARIABLES
    modules,        \* what importing and calling each module does
    documentation,  \* the document so far
    dpc,            \* where generate_full_documentation is
    section,        \* the position in the sorted MODULE_MAP of the next section
    doclog          \* what get_module_markdown printed

docvars == <<modules, documentation, dpc, section, doclog>>

VARIABLES
    apc,        \* where the sample application is: "constructed", "running", "stopped"
    todos,      \* self.todos, the list of todo items
    pending,    \* the requests that arrived and whose handler has not run yet
    tasks,      \* the background tasks of process_new_todo that have not finished
    response,   \* the latest response
    assigned,   \* history: the ids given to todos, in order
    arrived     \* the number of requests so far

todovars == <<apc, todos, pending, tasks, response, assigned, arrived>>

VARIABLES
    partA,      \* the text the content of the file was composed from
    partB,      \* the text that follows it when two texts were joined
    shape       \* how the content was composed

partvars == <<partA, partB, shape>>

(* what GitBranching never touches *)
outsideGit == <<scanvars, callvars, mainvars, docvars, todovars, partvars>>

(* what generate_full_documentation never touches *)
outsideDoc == <<scanvars, callvars, mainvars, gitvars, todovars, partvars>>

(* what the sample application never touches *)
outsideTodo == <<scanvars, callvars, mainvars, gitvars, docvars, partvars>>

(* the names of the other programs of the repository, and of the parts of *)
(* a composed file                                                         *)
toolvars == <<gitvars, docvars, todovars, partvars>>

(* what a call of check_parentheses_balance never touches *)
outside == <<callvars, mainvars, toolvars>>

vars == <<scanvars, outside>>

(* no second call is running *)
NoPeer == [pc |-> "none"]

(* there is one call only *)
OneCall == prev = <<>> /\ peer = NoPeer

(* GitBranching is not used *)
NoGit ==
    /\ branches = {}
    /\ upstream = {}
    /\ remote = {}
    /\ head = <<>>
    /\ base = {}
    /\ merged = {}
    /\ executed = <<>>
    /\ gitop = <<>>
    /\ gitret = <<>>
    /\ gitexc = "none"
    /\ ops = 0

(* generate_full_documentation is not called *)
NoDoc ==
    /\ modules = <<>>
    /\ documentation = <<>>
    /\ dpc = "idle"
    /\ section = 0
    /\ doclog = <<>>

(* the sample application is not used *)
NoTodo ==
    /\ apc = "none"
    /\ todos = <<>>
    /\ pending = {}
    /\ tasks = {}
    /\ response = <<>>
    /\ assigned = <<>>
    /\ arrived = 0

(* the content of the file is given as a whole *)
NoParts ==
    /\ partA = <<>>
    /\ partB = <<>>
    /\ shape = [kind |-> "whole", open |-> "", close |-> ""]

(* the other programs of the repository are not running *)
NoTools == NoGit /\ NoDoc /\ NoTodo /\ NoParts

(* check_parentheses_balance is not called *)
NoScan ==
    /\ content = <<>>
    /\ lines = <<>>
    /\ pc = "idle"
    /\ i = 1
    /\ j = 0
    /\ stack = <<>>
    /\ out = <<>>
    /\ result = "unset"
    /\ exc = "none"
    /\ examined = <<>>

(* the function is called as a library function, not by the script *)
NoScript ==
    /\ argv = <<>>
    /\ files = <<>>
    /\ filename = "unset"
    /\ checked = <<>>
    /\ status = -1

(* f.readlines(): the content cut after every line terminator; every line  *)
(* is non-empty and only the last one may lack its terminator.             *)
RECURSIVE SplitLines(_, _)
SplitLines(s, cur) ==
    IF s = <<>> THEN (IF cur = <<>> THEN <<>> ELSE <<cur>>)
    ELSE IF Head(s) = "\n" THEN <<Append(cur, "\n")>> \o SplitLines(Tail(s), <<>>)
    ELSE SplitLines(Tail(s), Append(cur, Head(s)))

readlines(s) == SplitLines(s, <<>>)

(* enumerate(lines, 1): the number of the first line. *)
FirstLine == 1

(* enumerate(line): the index of the first character of a line. *)
FirstCol == 0

(* line i of the file and its character at column j *)
LineAt(ls, li) == ls[li - FirstLine + 1]
CharAt(ls, li, lj) == LineAt(ls, li)[lj - FirstCol + 1]

(* char in '([{' *)
IsOpening(char) == char \in {"(", "[", "{"}

(* IsClosing as a plain else of the opening test *)
IsClosingElse(char) == char \notin {"(", "[", "{"}

(* char in ')]}' *)
IsClosing(char) == char \in {")", "]", "}"}

(* NotStack never true: the emptiness test is skipped *)
NotStackNever(st) == FALSE

(* not stack *)
NotStack(st) == st = <<>>

(* OpenRecord with the column counted from 1 *)
OpenRecordColumnFromOne(char, li, lj) == <<char, li, lj + 1>>

(* the record appended for an opening bracket *)
OpenRecord(char, li, lj) == <<char, li, lj>>

(* StackAppend with the record inserted at the bottom *)
StackAppendFront(st, rec) == <<rec>> \o st

(* stack.append(rec) *)
StackAppend(st, rec) == Append(st, rec)

(* Mismatched without its third clause *)
MismatchedNoBrace(opening, char) ==
    \/ (opening = "(" /\ char # ")")
    \/ (opening = "[" /\ char # "]")

(* the condition of the mismatch test *)
Mismatched(opening, char) ==
    \/ (opening = "(" /\ char # ")")
    \/ (opening = "[" /\ char # "]")
    \/ (opening = "{" /\ char # "}")

(* ExtraMsg with the column counted from 1 *)
ExtraMsgColumnFromOne(char, li, lj) ==
    <<"Extra closing bracket '", char, "' at line ", li, ", column ", lj + 1>>

(* the printed lines *)
ExtraMsg(char, li, lj) ==
    <<"Extra closing bracket '", char, "' at line ", li, ", column ", lj>>

(* MismatchMsg citing the opener at the line of the closer *)
MismatchMsgCloserLine(opening, open_line, open_col, char, li, lj) ==
    <<"Mismatched brackets: '", opening, "' at line ", li, ", column ", open_col,
      " and '", char, "' at line ", li, ", column ", lj>>

MismatchMsg(opening, open_line, open_col, char, li, lj) ==
    <<"Mismatched brackets: '", opening, "' at line ", open_line, ", column ", open_col,
      " and '", char, "' at line ", li, ", column ", lj>>

UnclosedHeader == <<"Unclosed brackets:">>

UnclosedLine(rec) == <<"  '", rec[1], "' at line ", rec[2], ", column ", rec[3]>>

(* UnclosedMsgs listing the stack from the top down *)
UnclosedMsgsTopDown(st) ==
    <<UnclosedHeader>> \o [k \in 1..Len(st) |-> UnclosedLine(st[Len(st) + 1 - k])]

UnclosedMsgs(st) == <<UnclosedHeader>> \o [k \in 1..Len(st) |-> UnclosedLine(st[k])]

BalancedMsg == <<"Brackets are balanced">>

(* The outcome of one pass through the body of the inner loop, or of the   *)
(* code after the loops: the new stack and output, and how control leaves  *)
(* ("next": the loop goes on, "return", "raise").                          *)
Outcome(st, o, ctl, res, e, branch) ==
    [stack |-> st, out |-> o, ctl |-> ctl, result |-> res, exc |-> e, branch |-> branch]

(* OnOpening pushing the record twice *)
OnOpeningTwice(st, o, char, li, lj) ==
    Outcome(StackAppend(StackAppend(st, OpenRecord(char, li, lj)), OpenRecord(char, li, lj)),
            o, "next", "unset", "none", "open")

(* an opening bracket: push its record *)
OnOpening(st, o, char, li, lj) ==
    Outcome(StackAppend(st, OpenRecord(char, li, lj)), o, "next", "unset", "none", "open")

(* OnExtra without the return: the loop goes on *)
OnExtraNoReturn(st, o, char, li, lj) ==
    Outcome(st, Append(o, ExtraMsg(char, li, lj)), "next", "unset", "none", "extra")

(* a closing bracket met with an empty stack *)
OnExtra(st, o, char, li, lj) ==
    Outcome(st, Append(o, ExtraMsg(char, li, lj)), "return", "False", "none", "extra")

(* OnMismatch without the return: the loop goes on *)
OnMismatchNoReturn(st, o, rec, char, li, lj) ==
    Outcome(st, Append(o, MismatchMsg(rec[1], rec[2], rec[3], char, li, lj)),
            "next", "unset", "none", "mismatch")

(* a closing bracket whose popped opener does not correspond *)
OnMismatch(st, o, rec, char, li, lj) ==
    Outcome(st, Append(o, MismatchMsg(rec[1], rec[2], rec[3], char, li, lj)),
            "return", "False", "none", "mismatch")

(* OnPop reading the top record without removing it *)
OnPopPeek(st, o, char, li, lj) ==
    IF Len(st) = 0 THEN Outcome(st, o, "raise", "unset", "IndexError", "poperror")
    ELSE LET rec == st[Len(st)]
         IN IF Mismatched(rec[1], char)
            THEN OnMismatch(st, o, rec, char, li, lj)
            ELSE Outcome(st, o, "next", "unset", "none", "match")

(* stack.pop() and the test of the popped record; pop of an empty list     *)
(* raises IndexError                                                       *)
OnPop(st, o, char, li, lj) ==
    IF Len(st) = 0 THEN Outcome(st, o, "raise", "unset", "IndexError", "poperror")
    ELSE LET rec == st[Len(st)]
             rest == SubSeq(st, 1, Len(st) - 1)
         IN IF Mismatched(rec[1], char)
            THEN OnMismatch(rest, o, rec, char, li, lj)
            ELSE Outcome(rest, o, "next", "unset", "none", "match")

(* the body of the inner loop for the character char at line li, column lj *)
Body(st, o, char, li, lj) ==
    IF IsOpening(char) THEN OnOpening(st, o, char, li, lj)
    ELSE IF IsClosing(char)
         THEN IF NotStack(st) THEN OnExtra(st, o, char, li, lj)
              ELSE OnPop(st, o, char, li, lj)
         ELSE Outcome(st, o, "next", "unset", "none", "other")

(* AfterLoops without the return of the unclosed branch: the balanced line *)
(* is printed as well and True is returned                                 *)
AfterLoopsFallThrough(st, o) ==
    IF st # <<>>
    THEN Outcome(st, Append(o \o UnclosedMsgs(st), BalancedMsg), "return", "True", "none",
                 "unclosed")
    ELSE Outcome(st, Append(o, BalancedMsg), "return", "True", "none", "balanced")

(* the code after the loops *)
AfterLoops(st, o) ==
    IF st # <<>>
    THEN Outcome(st, o \o UnclosedMsgs(st), "return", "False", "none", "unclosed")
    ELSE Outcome(st, Append(o, BalancedMsg), "return", "True", "none", "balanced")

(* NextPos that does not advance *)
NextPosStays(ls, li, lj) == <<li, lj>>

(* the position examined after <<li, lj>> when the loops go on *)
NextPos(ls, li, lj) ==
    IF lj + 1 - FirstCol < Len(LineAt(ls, li)) THEN <<li, lj + 1>> ELSE <<li + 1, FirstCol>>

InText(ls, li) == li - FirstLine + 1 <= Len(ls)

(* The whole call on the lines ls, from position <<li, lj>> on. *)
RECURSIVE ScanFrom(_, _, _, _, _)
ScanFrom(ls, li, lj, st, o) ==
    IF ~InText(ls, li) THEN AfterLoops(st, o)
    ELSE LET r == Body(st, o, CharAt(ls, li, lj), li, lj)
             p == NextPos(ls, li, lj)
         IN IF r.ctl = "next" THEN ScanFrom(ls, p[1], p[2], r.stack, r.out) ELSE r

check_parentheses_balance(s) == ScanFrom(readlines(s), FirstLine, FirstCol, <<>>, <<>>)

Init ==
    /\ content \in Contents
    /\ lines = <<>>
    /\ pc = "start"
    /\ i = FirstLine
    /\ j = FirstCol
    /\ stack = <<>>
    /\ out = <<>>
    /\ result = "unset"
    /\ exc = "none"
    /\ examined = <<>>
    /\ OneCall
    /\ NoScript
    /\ NoTools

(* open(filename) and f.readlines() succeed *)
OpenFile ==
    /\ pc = "start"
    /\ lines' = readlines(content)
    /\ pc' = "scan"
    /\ UNCHANGED <<content, i, j, stack, out, result, exc, examined>>
    /\ UNCHANGED outside

(* OpenFail with the exception caught and an empty content substituted *)
OpenFailSubstitutes ==
    /\ pc = "start"
    /\ exc' = "OSError"
    /\ lines' = <<>>
    /\ pc' = "scan"
    /\ UNCHANGED <<content, i, j, stack, out, result, examined>>
    /\ UNCHANGED outside

(* open(filename) or the read fails: the exception leaves the function *)
OpenFail ==
    /\ pc = "start"
    /\ exc' = "OSError"
    /\ pc' = "raised"
    /\ UNCHANGED <<content, lines, i, j, stack, out, result, examined>>
    /\ UNCHANGED outside

Scanning == pc = "scan" /\ InText(lines, i)

char == CharAt(lines, i, j)

(* The effect of one pass through the body of the inner loop with outcome  *)
(* r: the loop goes on at the next position, or the call ends.             *)
Pass(r) ==
    /\ stack' = r.stack
    /\ out' = r.out
    /\ result' = r.result
    /\ exc' = r.exc
    /\ examined' = Append(examined, <<i, j>>)
    /\ IF r.ctl = "next"
       THEN /\ pc' = "scan"
            /\ i' = NextPos(lines, i, j)[1]
            /\ j' = NextPos(lines, i, j)[2]
       ELSE /\ pc' = (IF r.ctl = "return" THEN "done" ELSE "raised")
            /\ UNCHANGED <<i, j>>
    /\ UNCHANGED <<content, lines>>
    /\ UNCHANGED outside

(* the character is an opening bracket *)
ScanOpening ==
    /\ Scanning
    /\ Body(stack, out, char, i, j).branch = "open"
    /\ Pass(Body(stack, out, char, i, j))

(* the character is a closing bracket and nothing is on the stack: the     *)
(* test "not stack" reports it (a pop would raise)                         *)
ScanExtraClosing ==
    /\ Scanning
    /\ Body(stack, out, char, i, j).branch \in {"extra", "poperror"}
    /\ Pass(Body(stack, out, char, i, j))

(* the character is a closing bracket that corresponds to the popped opener *)
ScanMatchedClosing ==
    /\ Scanning
    /\ Body(stack, out, char, i, j).branch = "match"
    /\ Pass(Body(stack, out, char, i, j))

(* the character is a closing bracket that does not correspond to it *)
ScanMismatchedClosing ==
    /\ Scanning
    /\ Body(stack, out, char, i, j).branch = "mismatch"
    /\ Pass(Body(stack, out, char, i, j))

(* any other character *)
ScanOther ==
    /\ Scanning
    /\ Body(stack, out, char, i, j).branch = "other"
    /\ Pass(Body(stack, out, char, i, j))

(* The loops are over: the code after them runs and the function returns.  *)
Return(r) ==
    /\ stack' = r.stack
    /\ out' = r.out
    /\ result' = r.result
    /\ exc' = r.exc
    /\ pc' = "done"
    /\ UNCHANGED <<content, lines, i, j, examined>>
    /\ UNCHANGED outside

EndUnclosed ==
    /\ pc = "scan"
    /\ ~InText(lines, i)
    /\ AfterLoops(stack, out).branch = "unclosed"
    /\ Return(AfterLoops(stack, out))

EndBalanced ==
    /\ pc = "scan"
    /\ ~InText(lines, i)
    /\ AfterLoops(stack, out).branch = "balanced"
    /\ Return(AfterLoops(stack, out))

Next ==
    \/ OpenFile
    \/ OpenFail
    \/ ScanOpening
    \/ ScanExtraClosing
    \/ ScanMatchedClosing
    \/ ScanMismatchedClosing
    \/ ScanOther
    \/ EndUnclosed
    \/ EndBalanced

Spec == Init /\ [][Next]_vars

(* The call is sequential code: whenever a step is possible, one is taken. *)
SpecFair == Spec /\ WF_vars(Next)

(***************************************************************************)
(* The function called again on the same file.                             *)
(***************************************************************************)

(* Bound on the number of calls made one after the other. *)
MaxCalls == 2

(* NewStack with the list of the previous call kept *)
NewStackKept(st) == st

(* stack = []: the list a call starts with, whatever an earlier call left *)
NewStack(st) == <<>>

(* The function has returned and is called again on the same file: the     *)
(* result and output of the finished call are kept for comparison, and the *)
(* new call starts with fresh local names.                                 *)
CallAgain ==
    /\ pc = "done"
    /\ Len(prev) + 1 < MaxCalls
    /\ prev' = Append(prev, [result |-> result, out |-> out])
    /\ stack' = NewStack(stack)
    /\ lines' = <<>>
    /\ pc' = "start"
    /\ i' = FirstLine
    /\ j' = FirstCol
    /\ out' = <<>>
    /\ result' = "unset"
    /\ exc' = "none"
    /\ examined' = <<>>
    /\ UNCHANGED <<content, peer, mainvars, toolvars>>

NextTwice ==
    \/ OpenFile
    \/ OpenFail
    \/ ScanOpening
    \/ ScanExtraClosing
    \/ ScanMatchedClosing
    \/ ScanMismatchedClosing
    \/ ScanOther
    \/ EndUnclosed
    \/ EndBalanced
    \/ CallAgain

SpecTwice == Init /\ [][NextTwice]_vars

(***************************************************************************)
(* Two calls of the function running at the same time, each on its own     *)
(* file.  The first call is the one of the names above; the names of the   *)
(* second one are the fields of peer.  The steps of the two calls          *)
(* interleave in any order.                                                *)
(***************************************************************************)

(* Bound on the number of characters of the files of two concurrent calls. *)
MaxParChars == 2

(* the characters of these files *)
ParChars == {"(", ")", "[", "]", "\n"}

RECURSIVE ParStringsUpTo(_)
ParStringsUpTo(n) ==
    IF n = 0 THEN {<<>>}
    ELSE LET S == ParStringsUpTo(n - 1)
         IN S \cup {Append(s, c) : s \in {t \in S : Len(t) = n - 1}, c \in ParChars}

ParContents == ParStringsUpTo(MaxParChars)

(* OwnStack with one list shared by the calls *)
OwnStackShared(mine, written) == written

(* stack is a local name: the list of a call after another call has        *)
(* assigned or changed its own                                             *)
OwnStack(mine, written) == mine

(* the second call at its start, on the content s *)
PeerStart(s) ==
    [content |-> s, lines |-> <<>>, pc |-> "start", i |-> FirstLine, j |-> FirstCol,
     stack |-> <<>>, out |-> <<>>, result |-> "unset", exc |-> "none"]

InitPar ==
    /\ content \in ParContents
    /\ lines = <<>>
    /\ pc = "start"
    /\ i = FirstLine
    /\ j = FirstCol
    /\ stack = <<>>
    /\ out = <<>>
    /\ result = "unset"
    /\ exc = "none"
    /\ examined = <<>>
    /\ prev = <<>>
    /\ peer \in {PeerStart(s) : s \in ParContents}
    /\ NoScript
    /\ NoTools

(* the second call: open(filename) and f.readlines() succeed *)
PeerOpenFile ==
    /\ peer.pc = "start"
    /\ peer' = [peer EXCEPT !.lines = readlines(peer.content), !.pc = "scan"]
    /\ UNCHANGED <<scanvars, prev, mainvars, toolvars>>

(* the second call: open(filename) or the read fails *)
PeerOpenFail ==
    /\ peer.pc = "start"
    /\ peer' = [peer EXCEPT !.exc = "OSError", !.pc = "raised"]
    /\ UNCHANGED <<scanvars, prev, mainvars, toolvars>>

(* the second call: one pass through the body of the inner loop *)
PeerScan ==
    /\ peer.pc = "scan"
    /\ InText(peer.lines, peer.i)
    /\ LET r == Body(peer.stack, peer.out, CharAt(peer.lines, peer.i, peer.j), peer.i, peer.j)
           p == NextPos(peer.lines, peer.i, peer.j)
       IN /\ peer' = [peer EXCEPT
                        !.stack = r.stack,
                        !.out = r.out,
                        !.result = r.result,
                        !.exc = r.exc,
                        !.pc = IF r.ctl = "next" THEN "scan"
                               ELSE IF r.ctl = "return" THEN "done" ELSE "raised",
                        !.i = IF r.ctl = "next" THEN p[1] ELSE @,
                        !.j = IF r.ctl = "next" THEN p[2] ELSE @]
          /\ stack' = OwnStack(stack, r.stack)
    /\ UNCHANGED <<content, lines, pc, i, j, out, result, exc, examined, prev, mainvars,
                   toolvars>>

(* the second call: the code after the loops *)
PeerFinish ==
    /\ peer.pc = "scan"
    /\ ~InText(peer.lines, peer.i)
    /\ LET r == AfterLoops(peer.stack, peer.out)
       IN /\ peer' = [peer EXCEPT
                        !.stack = r.stack,
                        !.out = r.out,
                        !.result = r.result,
                        !.exc = r.exc,
                        !.pc = "done"]
          /\ stack' = OwnStack(stack, r.stack)
    /\ UNCHANGED <<content, lines, pc, i, j, out, result, exc, examined, prev, mainvars,
                   toolvars>>

NextPar ==
    \/ OpenFile
    \/ OpenFail
    \/ ScanOpening
    \/ ScanExtraClosing
    \/ ScanMatchedClosing
    \/ ScanMismatchedClosing
    \/ ScanOther
    \/ EndUnclosed
    \/ EndBalanced
    \/ PeerOpenFile
    \/ PeerOpenFail
    \/ PeerScan
    \/ PeerFinish

SpecPar == InitPar /\ [][NextPar]_vars

(***************************************************************************)
(* The script: the code under if __name__ == "__main__".  sys.argv holds   *)
(* the name of the script followed by the command-line arguments.          *)
(***************************************************************************)

(* Bound on the number of command-line arguments. *)
MaxArgs == 2

(* the file names given as arguments and the files that exist *)
ArgNames == {"a.py", "b.py"}
FileNames == ArgNames \cup {"guide/validation.py"}

(* the contents of these files: one for each outcome of the check *)
MainContents == {<<"(", ")">>, <<"a", ")">>, <<"(", "]">>, <<"(", "\n">>}

RECURSIVE ArgLists(_)
ArgLists(n) ==
    IF n = 0 THEN {<<>>}
    ELSE LET S == ArgLists(n - 1)
         IN S \cup {Append(s, a) : s \in {t \in S : Len(t) = n - 1}, a \in ArgNames}

Argvs == {<<"check_brackets.py">> \o a : a \in ArgLists(MaxArgs)}

(* ChooseFilename taking the last argument *)
ChooseFilenameLast(av) == IF Len(av) > 1 THEN av[Len(av)] ELSE "guide/validation.py"

(* filename = sys.argv[1] if len(sys.argv) > 1 else "guide/validation.py" *)
ChooseFilename(av) == IF Len(av) > 1 THEN av[2] ELSE "guide/validation.py"

(* ExitStatus of a script that ends with sys.exit(0 if balanced else 1) *)
ExitStatusOfResult(res, e) == IF e # "none" THEN 1 ELSE IF res = "True" THEN 0 ELSE 1

(* The exit status of the interpreter: the value returned by the call is   *)
(* dropped, the script ends with status 0 unless an exception left it.     *)
ExitStatus(res, e) == IF e # "none" THEN 1 ELSE 0

InitMain ==
    /\ argv \in Argvs
    /\ files \in [FileNames -> MainContents]
    /\ filename = "unset"
    /\ checked = <<>>
    /\ status = -1
    /\ content = <<>>
    /\ lines = <<>>
    /\ pc = "main"
    /\ i = FirstLine
    /\ j = FirstCol
    /\ stack = <<>>
    /\ out = <<>>
    /\ result = "unset"
    /\ exc = "none"
    /\ examined = <<>>
    /\ OneCall
    /\ NoTools

(* the script chooses the file and calls check_parentheses_balance on it *)
MainCall ==
    /\ pc = "main"
    /\ filename' = ChooseFilename(argv)
    /\ checked' = Append(checked, ChooseFilename(argv))
    /\ content' = files[ChooseFilename(argv)]
    /\ stack' = NewStack(stack)
    /\ pc' = "start"
    /\ UNCHANGED <<lines, i, j, out, result, exc, examined, callvars, argv, files, status,
                   toolvars>>

(* the call is over (returned or raised): the script ends *)
MainExit ==
    /\ pc \in {"done", "raised"}
    /\ status' = ExitStatus(result, exc)
    /\ pc' = "exited"
    /\ UNCHANGED <<content, lines, i, j, stack, out, result, exc, examined, callvars,
                   argv, files, filename, checked, toolvars>>

NextMain ==
    \/ MainCall
    \/ OpenFile
    \/ OpenFail
    \/ ScanOpening
    \/ ScanExtraClosing
    \/ ScanMatchedClosing
    \/ ScanMismatchedClosing
    \/ ScanOther
    \/ EndUnclosed
    \/ EndBalanced
    \/ MainExit

SpecMain == InitMain /\ [][NextMain]_vars

(***************************************************************************)
(* guide/git_branching.py: GitBranching with the default strategy, on a    *)
(* repository given by its local branches, the branches that track an      *)
(* upstream, the names a remote offers, and the branch checked out.  A     *)
(* branch name is the sequence of the pieces its f-string joins, a command *)
(* is the sequence of the git commands its "&&" joins, and a git command   *)
(* is its words followed by the branch it names.  Feature names are plain  *)
(* words: they hold nothing the shell would read as an operator.           *)
(***************************************************************************)
MaxOps == 2

GitNames == {"x"}

main_branch == <<"main">>

development_branch == <<"dev">>

feature_prefix == <<"feature/">>

bugfix_prefix == <<"bugfix/">>

hotfix_prefix == <<"hotfix/">>

BaseBranches == {main_branch, development_branch}

Prefixes == {feature_prefix, bugfix_prefix, hotfix_prefix}

AllBranches == BaseBranches \cup {p \o <<n>> : p \in Prefixes, n \in GitNames}

git_checkout(b) == <<"git checkout", b>>

git_pull == <<"git pull">>

git_checkout_b(b) == <<"git checkout -b", b>>

git_merge_no_ff(b) == <<"git merge --no-ff", b>>

(* the kinds of git command, one of which the environment may make fail   *)
(* (a dirty work tree, an unreachable remote, a merge conflict)            *)
EnvFailures == {"none", "git checkout", "git pull", "git checkout -b", "git merge --no-ff"}

Repo == [branches |-> branches, upstream |-> upstream, remote |-> remote, head |-> head,
         base |-> base, merged |-> merged]

branch_exists(repo, branch_name) == branch_name \in repo.branches

branch_has_upstream(repo, branch_name) == branch_name \in repo.upstream

(* what git does with one command when nothing outside the branches fails: *)
(* checkout switches to a local branch, or creates it from the remote's    *)
(* branch of that name; checkout -b creates a new branch where HEAD is;    *)
(* merge records the merge into the branch checked out                     *)
GitOk(c, repo) ==
    CASE c[1] = "git checkout" -> c[2] \in repo.branches \cup repo.remote
      [] c[1] = "git pull" -> TRUE
      [] c[1] = "git checkout -b" -> c[2] \notin repo.branches
      [] c[1] = "git merge --no-ff" -> c[2] \in repo.branches

GitEffect(c, repo) ==
    CASE c[1] = "git checkout" ->
             [repo EXCEPT !.head = c[2],
                          !.branches = @ \cup {c[2]},
                          !.upstream = IF c[2] \in repo.branches THEN @ ELSE @ \cup {c[2]}]
      [] c[1] = "git pull" -> repo
      [] c[1] = "git checkout -b" ->
             [repo EXCEPT !.head = c[2],
                          !.branches = @ \cup {c[2]},
                          !.base = @ \cup {<<c[2], repo.head>>}]
      [] c[1] = "git merge --no-ff" ->
             [repo EXCEPT !.merged = @ \cup {<<c[2], repo.head>>}]

(* the shell runs the commands of an "&&" chain up to the first that fails *)
RECURSIVE RunChain(_, _, _, _, _)
RunChain(command, k, repo, envfail, log) ==
    IF k > Len(command) THEN [repo |-> repo, log |-> log, ok |-> TRUE]
    ELSE LET c == command[k]
             ok == GitOk(c, repo) /\ c[1] # envfail
         IN  IF ok THEN RunChain(command, k + 1, GitEffect(c, repo), envfail,
                                 Append(log, [cmd |-> c, ok |-> TRUE]))
             ELSE [repo |-> repo, log |-> Append(log, [cmd |-> c, ok |-> FALSE]), ok |-> FALSE]

(* ok = FALSE is the CalledProcessError that is printed and raised again *)
_execute_git_command(command, repo, envfail) == RunChain(command, 1, repo, envfail, <<>>)

pull_cmd(repo, b) ==
    IF branch_exists(repo, b) /\ branch_has_upstream(repo, b) THEN <<git_pull>> ELSE <<>>

GitOutcome(r, command) ==
    [repo |-> r.repo, log |-> r.log,
     ret |-> IF r.ok THEN command ELSE <<>>,
     exc |-> IF r.ok THEN "none" ELSE "CalledProcessError"]

CreateBranchAlways(repo, branch_name, base_branch, envfail) ==
    LET command == <<git_checkout(base_branch)>> \o pull_cmd(repo, base_branch)
                       \o <<git_checkout_b(branch_name)>>
    IN  GitOutcome(_execute_git_command(command, repo, envfail), command)

(* the body the three create_* methods share, with the prefixed name and  *)
(* the base branch of the method                                           *)
CreateBranch(repo, branch_name, base_branch, envfail) ==
    LET command == IF branch_exists(repo, branch_name)
                   THEN <<git_checkout(branch_name)>>
                   ELSE <<git_checkout(base_branch)>> \o pull_cmd(repo, base_branch)
                            \o <<git_checkout_b(branch_name)>>
    IN  GitOutcome(_execute_git_command(command, repo, envfail), command)

create_feature_branch(repo, feature_name, envfail) ==
    CreateBranch(repo, feature_prefix \o <<feature_name>>, development_branch, envfail)

create_bugfix_branch_from_dev(repo, bug_name, envfail) ==
    CreateBranch(repo, bugfix_prefix \o <<bug_name>>, development_branch, envfail)

create_bugfix_branch(repo, bug_name, envfail) ==
    CreateBranch(repo, bugfix_prefix \o <<bug_name>>, main_branch, envfail)

create_hotfix_branch(repo, hotfix_name, envfail) ==
    CreateBranch(repo, hotfix_prefix \o <<hotfix_name>>, main_branch, envfail)

merge_feature_to_dev_unchecked(repo, feature_name, envfail) ==
    LET branch_name == feature_prefix \o <<feature_name>>
        first == _execute_git_command(
                     <<git_checkout(development_branch)>> \o pull_cmd(repo, development_branch),
                     repo, envfail)
        second == _execute_git_command(<<git_merge_no_ff(branch_name)>>, first.repo, envfail)
    IN  GitOutcome([repo |-> second.repo, log |-> first.log \o second.log,
                    ok |-> second.ok], <<>>)

merge_feature_to_dev(repo, feature_name, envfail) ==
    LET branch_name == feature_prefix \o <<feature_name>>
        first == _execute_git_command(
                     <<git_checkout(development_branch)>> \o pull_cmd(repo, development_branch),
                     repo, envfail)
        second == _execute_git_command(<<git_merge_no_ff(branch_name)>>, first.repo, envfail)
    IN  IF ~first.ok THEN GitOutcome(first, <<>>)
        ELSE GitOutcome([repo |-> second.repo, log |-> first.log \o second.log,
                         ok |-> second.ok], <<>>)

(* the state after GitBranching() was constructed in some repository *)
InitGit ==
    /\ branches \in SUBSET AllBranches
    /\ head \in branches
    /\ upstream \in SUBSET (branches \cap BaseBranches)
    /\ remote \in SUBSET BaseBranches
    /\ base = {}
    /\ merged = {}
    /\ executed = <<>>
    /\ gitop = <<>>
    /\ gitret = <<>>
    /\ gitexc = "none"
    /\ ops = 0
    /\ NoScan
    /\ OneCall
    /\ NoScript
    /\ NoDoc
    /\ NoTodo
    /\ NoParts

(* the method returned or raised: o is what it did *)
GitDone(op, name, o) ==
    /\ branches' = o.repo.branches
    /\ upstream' = o.repo.upstream
    /\ head' = o.repo.head
    /\ base' = o.repo.base
    /\ merged' = o.repo.merged
    /\ executed' = o.log
    /\ gitop' = <<op, name>>
    /\ gitret' = o.ret
    /\ gitexc' = o.exc
    /\ ops' = ops + 1
    /\ UNCHANGED <<remote, outsideGit>>

CreateFeatureBranch ==
    \E name \in GitNames, envfail \in EnvFailures :
        /\ ops < MaxOps
        /\ GitDone("create_feature_branch", name, create_feature_branch(Repo, name, envfail))

CreateBugfixBranch ==
    \E name \in GitNames, envfail \in EnvFailures :
        /\ ops < MaxOps
        /\ GitDone("create_bugfix_branch", name, create_bugfix_branch(Repo, name, envfail))

CreateHotfixBranch ==
    \E name \in GitNames, envfail \in EnvFailures :
        /\ ops < MaxOps
        /\ GitDone("create_hotfix_branch", name, create_hotfix_branch(Repo, name, envfail))

MergeFeatureToDev ==
    \E name \in GitNames, envfail \in EnvFailures :
        /\ ops < MaxOps
        /\ GitDone("merge_feature_to_dev", name, merge_feature_to_dev(Repo, name, envfail))

NextGit ==
    \/ CreateFeatureBranch
    \/ CreateBugfixBranch
    \/ CreateHotfixBranch
    \/ MergeFeatureToDev

SpecGit == InitGit /\ [][NextGit]_vars

(***************************************************************************)
(* guide/doc_generator.py: the document is the sequence of the pieces that *)
(* generate_full_documentation appends to it.  A title is the sequence of  *)
(* its words, blanks and signs, so that the slug of a title is computed as *)
(* the code computes it (the dash of two titles is written by its code    *)
(* point, U+2014); a module's markdown is a text of its own.               *)
(***************************************************************************)
MaxDeviations == 1

MODULE_MAP ==
    << [name |-> "security", num |-> 0,
        title |-> <<"Security", " ", "Practices">>],
       [name |-> "environment", num |-> 1,
        title |-> <<"Environment", " ", "Management", " ", "&", " ", "Setup">>],
       [name |-> "code_style", num |-> 2,
        title |-> <<"Code", " ", "Style", " ", "&", " ", "Formatting">>],
       [name |-> "modern", num |-> 3,
        title |-> <<"Modern", " ", "Python", " ", "Syntax", " ", "&", " ", "Idioms">>],
       [name |-> "application_design", num |-> 4,
        title |-> <<"Application", " ", "Design", " ", "&", " ", "Structure">>],
       [name |-> "testing", num |-> 5,
        title |-> <<"Testing">>],
       [name |-> "validation", num |-> 6,
        title |-> <<"Data", " ", "Validation", " ", "&", " ", "Configuration", " ", "U+2014", " ", "Pydantic", " ", "v2">>],
       [name |-> "observability", num |-> 7,
        title |-> <<"Logging", " ", "&", " ", "Observability">>],
       [name |-> "containerization", num |-> 8,
        title |-> <<"Containerization", " ", "&", " ", "Docker", " ", "Usage">>],
       [name |-> "fast_api_best_practice", num |-> 9,
        title |-> <<"API", " ", "Development", " ", "U+2014", " ", "FastAPI">>],
       [name |-> "tasks", num |-> 10,
        title |-> <<"Background", " ", "Tasks", " ", "&", " ", "Concurrency">>],
       [name |-> "data_persistence", num |-> 11,
        title |-> <<"Data", " ", "Persistence", " ", "&", " ", "Storage">>],
       [name |-> "ai_ml_practices", num |-> 12,
        title |-> <<"AI", " ", "&", " ", "Data-Science", " ", "Practices">>],
       [name |-> "edge_cases", num |-> 13,
        title |-> <<"Edge-Case", " ", "Pitfalls", " ", "&", " ", "Gotchas">>] >>

SPECIAL_MODULES ==
    << [name |-> "git_branching", num |-> 1,
        title |-> <<"Environment", " ", "Management", " ", "&", " ", "Setup", " ", "(", "Git", " ", "Workflow", ")">>],
       [name |-> "dry", num |-> 4,
        title |-> <<"Application", " ", "Design", " ", "&", " ", "Structure", " ", "(", "DRY", " ", "Principle", ")">>],
       [name |-> "solid", num |-> 4,
        title |-> <<"Application", " ", "Design", " ", "&", " ", "Structure", " ", "(", "SOLID", " ", "Principles", ")">>] >>

LowerCased ==
    {<<"Security", "security">>, <<"Practices", "practices">>,
     <<"Environment", "environment">>, <<"Management", "management">>,
     <<"Setup", "setup">>, <<"Code", "code">>, <<"Style", "style">>,
     <<"Formatting", "formatting">>, <<"Modern", "modern">>,
     <<"Python", "python">>, <<"Syntax", "syntax">>, <<"Idioms", "idioms">>,
     <<"Application", "application">>, <<"Design", "design">>,
     <<"Structure", "structure">>, <<"Testing", "testing">>,
     <<"Data", "data">>, <<"Validation", "validation">>,
     <<"Configuration", "configuration">>, <<"Pydantic", "pydantic">>,
     <<"Logging", "logging">>, <<"Observability", "observability">>,
     <<"Containerization", "containerization">>, <<"Docker", "docker">>,
     <<"Usage", "usage">>, <<"API", "api">>,
     <<"Development", "development">>, <<"FastAPI", "fastapi">>,
     <<"Background", "background">>, <<"Tasks", "tasks">>,
     <<"Concurrency", "concurrency">>, <<"Persistence", "persistence">>,
     <<"Storage", "storage">>, <<"AI", "ai">>,
     <<"Data-Science", "data-science">>, <<"Edge-Case", "edge-case">>,
     <<"Pitfalls", "pitfalls">>, <<"Gotchas", "gotchas">>, <<"Git", "git">>,
     <<"Workflow", "workflow">>, <<"DRY", "dry">>,
     <<"Principle", "principle">>, <<"SOLID", "solid">>,
     <<"Principles", "principles">>}

NameWords ==
    {<<"git_branching", <<"git", "_", "branching">>>>,
     <<"dry", <<"dry">>>>,
     <<"solid", <<"solid">>>>}

TitleCased ==
    {<<"git", "Git">>, <<"branching", "Branching">>, <<"dry", "Dry">>, <<"solid", "Solid">>}

(* how importing a module and calling its generate_markdown() can go *)
Behaviours ==
    {"ImportError", "ImportRaises", "NoFunction", "CallImportError", "CallRaises",
     "ReturnsNone", "ReturnsEmpty", "ReturnsText"}

(* what every module but the deviating ones does: what the guide promises, *)
(* and what the files of the repository do                                 *)
UsualBehaviours == {"ReturnsText", "NoFunction", "ImportError"}

ModuleNames ==
    {MODULE_MAP[k].name : k \in 1..Len(MODULE_MAP)}
        \cup {SPECIAL_MODULES[k].name : k \in 1..Len(SPECIAL_MODULES)}

None == <<"None">>

Markdown(module_name) == <<"markdown of ", module_name>>

Lookup(table, w) ==
    IF \E p \in table : p[1] = w THEN (CHOOSE p \in table : p[1] = w)[2] ELSE w

lower(s) == [k \in 1..Len(s) |-> Lookup(LowerCased, s[k])]

title(s) == [k \in 1..Len(s) |-> Lookup(TitleCased, s[k])]

RECURSIVE replace(_, _, _)
replace(s, old, new) ==
    IF s = <<>> THEN <<>>
    ELSE (IF Head(s) = old THEN new ELSE <<Head(s)>>) \o replace(Tail(s), old, new)

Slug(section_title) ==
    replace(replace(replace(replace(replace(lower(section_title),
        " ", <<"-">>), "&", <<>>), "U+2014", <<>>), "(", <<>>), ")", <<>>)

SpecialHeading(special_name) == title(replace(Lookup(NameWords, special_name), "_", <<" ">>))

(* sorted(modules, key=lambda x: x[1]): a stable sort by section number *)
InsertByNum(s, e) ==
    LET p == Cardinality({m \in 1..Len(s) : s[m].num <= e.num})
    IN  SubSeq(s, 1, p) \o <<e>> \o SubSeq(s, p + 1, Len(s))

RECURSIVE sorted(_)
sorted(s) ==
    IF s = <<>> THEN <<>> ELSE InsertByNum(sorted(SubSeq(s, 1, Len(s) - 1)), s[Len(s)])

Piece(kind, num, text, slug) == [kind |-> kind, num |-> num, text |-> text, slug |-> slug]

generate_header == <<Piece("header", -1, <<>>, <<>>)>>

Rule == Piece("rule", -1, <<>>, <<>>)

generate_toc(mods) ==
    LET s == sorted(mods)
    IN  [k \in 1..Len(s) |-> Piece("toc", s[k].num, s[k].title, Slug(s[k].title))]

Said(what, module_name) == [what |-> what, name |-> module_name]

get_module_markdown(module_name, env) ==
    LET b == env[module_name]
        generating == Said("Generating documentation from", module_name)
        failed == Said("Could not import", module_name)
    IN  CASE b = "ImportError" ->
                 [content |-> None, log |-> <<failed>>, raised |-> FALSE]
          [] b = "ImportRaises" ->
                 [content |-> None, log |-> <<>>, raised |-> TRUE]
          [] b = "NoFunction" ->
                 [content |-> None, log |-> <<Said("Warning: no generate_markdown", module_name)>>,
                  raised |-> FALSE]
          [] b = "CallImportError" ->
                 [content |-> None, log |-> <<generating, failed>>, raised |-> FALSE]
          [] b = "CallRaises" ->
                 [content |-> None, log |-> <<generating>>, raised |-> TRUE]
          [] b = "ReturnsNone" ->
                 [content |-> None, log |-> <<generating>>, raised |-> FALSE]
          [] b = "ReturnsEmpty" ->
                 [content |-> <<>>, log |-> <<generating>>, raised |-> FALSE]
          [] b = "ReturnsText" ->
                 [content |-> Markdown(module_name), log |-> <<generating>>, raised |-> FALSE]

TruthyNotNone(c) == c # None

Truthy(c) == c # None /\ c # <<>>

(* the pieces that the special modules of section section_num add, from   *)
(* SPECIAL_MODULES[k] on; so is what was appended and printed before       *)
RECURSIVE AddSpecials(_, _, _, _)
AddSpecials(k, section_num, env, so) ==
    IF k > Len(SPECIAL_MODULES) THEN so
    ELSE IF SPECIAL_MODULES[k].num # section_num THEN AddSpecials(k + 1, section_num, env, so)
    ELSE LET special_name == SPECIAL_MODULES[k].name
             special == get_module_markdown(special_name, env)
             added == IF Truthy(special.content)
                      THEN << Piece("special heading", section_num,
                                    SpecialHeading(special_name), <<>>),
                              Piece("content", section_num, special.content, <<>>) >>
                      ELSE <<>>
         IN  IF special.raised
             THEN [doc |-> so.doc, log |-> so.log \o special.log, raised |-> TRUE]
             ELSE AddSpecials(k + 1, section_num, env,
                              [doc |-> so.doc \o added, log |-> so.log \o special.log,
                               raised |-> FALSE])

(* one round of the loop over the sorted MODULE_MAP *)
ProcessSection(entry, env) ==
    LET opening == << Piece("anchor", entry.num, <<>>, Slug(entry.title)),
                      Piece("heading", entry.num, entry.title, <<>>) >>
        main == get_module_markdown(entry.name, env)
        body == IF Truthy(main.content)
                THEN <<Piece("content", entry.num, main.content, <<>>)>>
                ELSE <<Piece("placeholder", entry.num, entry.title, <<>>)>>
        rest == AddSpecials(1, entry.num, env,
                            [doc |-> opening \o body, log |-> main.log, raised |-> FALSE])
    IN  IF main.raised THEN [doc |-> opening, log |-> main.log, raised |-> TRUE]
        ELSE IF rest.raised THEN rest
        ELSE [rest EXCEPT !.doc = @ \o <<Rule>>]

all_modules == MODULE_MAP \o SPECIAL_MODULES

RECURSIVE SubsetsUpTo(_, _)
SubsetsUpTo(S, n) ==
    IF n = 0 THEN {{}}
    ELSE LET smaller == SubsetsUpTo(S, n - 1)
         IN  smaller \cup {D \cup {m} : D \in smaller, m \in S}

(* every module does the usual thing, but for at most n of them *)
Environments(n) ==
    UNION { { [m \in ModuleNames |-> IF m \in D THEN f[m] ELSE u] : f \in [D -> Behaviours] } :
            D \in SubsetsUpTo(ModuleNames, n), u \in UsualBehaviours }

InitDoc ==
    /\ modules \in Environments(MaxDeviations)
    /\ documentation = <<>>
    /\ dpc = "start"
    /\ section = 0
    /\ doclog = <<>>
    /\ NoScan
    /\ OneCall
    /\ NoScript
    /\ NoGit
    /\ NoTodo
    /\ NoParts

(* the header, the table of contents of all modules and a rule *)
GenStart ==
    /\ dpc = "start"
    /\ documentation' = generate_header \o generate_toc(all_modules) \o <<Rule>>
    /\ section' = 1
    /\ dpc' = "sections"
    /\ UNCHANGED <<modules, doclog, outsideDoc>>

(* the section of the next entry; an exception other than ImportError *)
(* leaves generate_full_documentation                                  *)
GenSection ==
    /\ dpc = "sections"
    /\ section <= Len(MODULE_MAP)
    /\ LET r == ProcessSection(sorted(MODULE_MAP)[section], modules)
       IN  /\ documentation' = documentation \o r.doc
           /\ doclog' = doclog \o r.log
           /\ dpc' = IF r.raised THEN "raised" ELSE "sections"
           /\ section' = IF r.raised THEN section ELSE section + 1
    /\ UNCHANGED <<modules, outsideDoc>>

GenReturn ==
    /\ dpc = "sections"
    /\ section > Len(MODULE_MAP)
    /\ dpc' = "done"
    /\ UNCHANGED <<modules, documentation, section, doclog, outsideDoc>>

NextDoc ==
    \/ GenStart
    \/ GenSection
    \/ GenReturn

SpecDoc == InitDoc /\ [][NextDoc]_vars

(***************************************************************************)
(* guide/sample_app.py: the todo application.  A request arrives, waits    *)
(* among the pending ones and is then handled; a handler has no await in   *)
(* it, so it runs as one step of the event loop, while process_new_todo    *)
(* is suspended once, at its sleep.  The structured log is left out.       *)
(***************************************************************************)
MaxArrivals == 3

IdsAsked == 1..4

(* the bodies a client sends: TodoCreate wants a title of at least one    *)
(* character                                                               *)
Payloads ==
    {[title |-> "a", completed |-> TRUE],
     [title |-> "", completed |-> FALSE]}

ValidTodoCreate(todo) == todo.title # ""

StartupTodos ==
    << [id |-> 1, title |-> "Learn Python Best Practices", completed |-> TRUE],
       [id |-> 2, title |-> "Build a FastAPI application", completed |-> FALSE],
       [id |-> 3, title |-> "Implement background tasks", completed |-> FALSE] >>

Ids(list) == {list[k].id : k \in 1..Len(list)}

MaxOf(S) == CHOOSE m \in S : \A n \in S : n <= m

(* the requests a client can send: the operation, the id of the path (0   *)
(* when the path has none) and the body (<<>> when there is none)          *)
Requests ==
    {[op |-> "get_todos", todo_id |-> 0, body |-> <<>>]}
        \cup {[op |-> "get_todo", todo_id |-> id, body |-> <<>>] : id \in IdsAsked}
        \cup {[op |-> "create_todo", todo_id |-> 0, body |-> <<p>>] : p \in Payloads}
        \cup {[op |-> "update_todo", todo_id |-> id, body |-> <<p>>] :
                  id \in IdsAsked, p \in Payloads}
        \cup {[op |-> "delete_todo", todo_id |-> id, body |-> <<>>] : id \in IdsAsked}

(* max(t["id"] for t in self.todos) + 1 if self.todos else 1 *)
new_id_count(list) == Len(list) + 1

new_id(list) == IF list # <<>> THEN MaxOf(Ids(list)) + 1 ELSE 1

(* next((i for i, t in enumerate(self.todos) if t["id"] == todo_id), None): *)
(* the first position that holds the id, counted from 1; 0 stands for None *)
find_index(list, todo_id) ==
    IF todo_id \in Ids(list)
    THEN CHOOSE k \in 1..Len(list) :
             /\ list[k].id = todo_id
             /\ \A m \in 1..(k - 1) : list[m].id # todo_id
    ELSE 0

(* {"id": new_id, **todo.model_dump()} *)
with_id(id, todo) == [id |-> id, title |-> todo.title, completed |-> todo.completed]

pop_last(list, k) == SubSeq(list, 1, Len(list) - 1)

(* list.pop(index) *)
pop(list, k) == SubSeq(list, 1, k - 1) \o SubSeq(list, k + 1, Len(list))

Respond(req, status_code, detail, body) ==
    response' = <<[n |-> req.n, op |-> req.op, todo_id |-> req.todo_id,
                   status |-> status_code, detail |-> detail, body |-> body]>>

InitTodo ==
    /\ apc = "constructed"
    /\ todos = <<>>
    /\ pending = {}
    /\ tasks = {}
    /\ response = <<>>
    /\ assigned = <<>>
    /\ arrived = 0
    /\ NoScan
    /\ OneCall
    /\ NoScript
    /\ NoGit
    /\ NoDoc
    /\ NoParts

(* lifespan, up to its yield *)
Startup ==
    /\ apc = "constructed"
    /\ apc' = "running"
    /\ todos' = StartupTodos
    /\ assigned' = [k \in 1..Len(StartupTodos) |-> StartupTodos[k].id]
    /\ UNCHANGED <<pending, tasks, response, arrived, outsideTodo>>

(* lifespan, after its yield: the server has answered every request *)
Shutdown ==
    /\ apc = "running"
    /\ pending = {}
    /\ tasks = {}
    /\ apc' = "stopped"
    /\ UNCHANGED <<todos, pending, tasks, response, assigned, arrived, outsideTodo>>

Arrive ==
    /\ apc = "running"
    /\ arrived < MaxArrivals
    /\ \E r \in Requests :
           pending' = pending \cup {[n |-> arrived + 1, op |-> r.op, todo_id |-> r.todo_id,
                                     body |-> r.body]}
    /\ arrived' = arrived + 1
    /\ UNCHANGED <<apc, todos, tasks, response, assigned, outsideTodo>>

(* the request leaves the pending ones; nothing but the response changes *)
Answered(req) ==
    /\ pending' = pending \ {req}
    /\ UNCHANGED <<apc, arrived, outsideTodo>>

GetTodos ==
    \E req \in pending :
        /\ req.op = "get_todos"
        /\ Respond(req, 200, "", todos)
        /\ Answered(req)
        /\ UNCHANGED <<todos, tasks, assigned>>

GetTodo ==
    \E req \in pending :
        /\ req.op = "get_todo"
        /\ LET index == find_index(todos, req.todo_id)
           IN  IF index = 0
               THEN Respond(req, 404, "Todo not found", <<>>)
               ELSE Respond(req, 200, "", <<todos[index]>>)
        /\ Answered(req)
        /\ UNCHANGED <<todos, tasks, assigned>>

(* a body that TodoCreate rejects is answered 422 before the handler runs *)
CreateTodo ==
    \E req \in pending :
        /\ req.op = "create_todo"
        /\ IF ~ValidTodoCreate(req.body[1])
           THEN /\ Respond(req, 422, "validation error", <<>>)
                /\ UNCHANGED <<todos, tasks, assigned>>
           ELSE LET new_todo == with_id(new_id(todos), req.body[1])
                IN  /\ todos' = Append(todos, new_todo)
                    /\ assigned' = Append(assigned, new_todo.id)
                    /\ tasks' = tasks \cup {[n |-> req.n, todo |-> new_todo, at |-> "scheduled"]}
                    /\ Respond(req, 201, "", <<new_todo>>)
        /\ Answered(req)

UpdateTodo ==
    \E req \in pending :
        /\ req.op = "update_todo"
        /\ IF ~ValidTodoCreate(req.body[1])
           THEN /\ Respond(req, 422, "validation error", <<>>)
                /\ UNCHANGED todos
           ELSE LET index == find_index(todos, req.todo_id)
                    updated_todo == with_id(req.todo_id, req.body[1])
                IN  IF index = 0
                    THEN /\ Respond(req, 404, "Todo not found", <<>>)
                         /\ UNCHANGED todos
                    ELSE /\ todos' = [todos EXCEPT ![index] = updated_todo]
                         /\ Respond(req, 200, "", <<updated_todo>>)
        /\ Answered(req)
        /\ UNCHANGED <<tasks, assigned>>

DeleteTodo ==
    \E req \in pending :
        /\ req.op = "delete_todo"
        /\ LET index == find_index(todos, req.todo_id)
           IN  IF index = 0
               THEN /\ Respond(req, 404, "Todo not found", <<>>)
                    /\ UNCHANGED todos
               ELSE /\ todos' = pop(todos, index)
                    /\ Respond(req, 204, "", <<>>)
        /\ Answered(req)
        /\ UNCHANGED <<tasks, assigned>>

(* process_new_todo starts after the response and suspends at its sleep *)
TaskSleep ==
    \E t \in tasks :
        /\ t.at = "scheduled"
        /\ tasks' = (tasks \ {t}) \cup {[t EXCEPT !.at = "sleeping"]}
        /\ UNCHANGED <<apc, todos, pending, response, assigned, arrived, outsideTodo>>

(* the sleep is over: process_new_todo logs the id and ends *)
TaskFinish ==
    \E t \in tasks :
        /\ t.at = "sleeping"
        /\ tasks' = tasks \ {t}
        /\ UNCHANGED <<apc, todos, pending, response, assigned, arrived, outsideTodo>>

NextTodo ==
    \/ Startup
    \/ Shutdown
    \/ Arrive
    \/ GetTodos
    \/ GetTodo
    \/ CreateTodo
    \/ UpdateTodo
    \/ DeleteTodo
    \/ TaskSleep
    \/ TaskFinish

SpecTodo == InitTodo /\ [][NextTodo]_vars

(***************************************************************************)
(* check_parentheses_balance on a text alone, and on a file composed of    *)
(* balanced texts: two of them joined, or one enclosed in an opening and a *)
(* closing bracket.                                                        *)
(***************************************************************************)
MaxPart == 3

(* the texts of at most n characters for which the function returns True *)
BalancedParts(n) == {s \in StringsUpTo(n) : check_parentheses_balance(s).result = "True"}

Shapes ==
    {[kind |-> "alone", open |-> "", close |-> ""],
     [kind |-> "joined", open |-> "", close |-> ""]}
        \cup {[kind |-> "enclosed", open |-> o, close |-> c] :
                  o \in {"(", "[", "{"}, c \in {")", "]", "}"}}

Compose(sh, a, b) ==
    CASE sh.kind = "alone" -> a
      [] sh.kind = "joined" -> a \o b
      [] sh.kind = "enclosed" -> <<sh.open>> \o a \o <<sh.close>>

InitAlg ==
    /\ shape \in Shapes
    /\ partA \in (IF shape.kind = "alone" THEN StringsUpTo(MaxPart) ELSE BalancedParts(MaxPart))
    /\ partB \in (IF shape.kind = "joined" THEN BalancedParts(MaxPart) ELSE {<<>>})
    /\ content = Compose(shape, partA, partB)
    /\ lines = <<>>
    /\ pc = "start"
    /\ i = FirstLine
    /\ j = FirstCol
    /\ stack = <<>>
    /\ out = <<>>
    /\ result = "unset"
    /\ exc = "none"
    /\ examined = <<>>
    /\ OneCall
    /\ NoScript
    /\ NoGit
    /\ NoDoc
    /\ NoTodo

SpecAlg == InitAlg /\ [][Next]_vars

(***************************************************************************)
(* Vocabulary of the properties, defined on the text alone.                *)
(***************************************************************************)
Openers == {"(", "[", "{"}
Closers == {")", "]", "}"}
Pairs == {<<"(", ")">>, <<"[", "]">>, <<"{", "}">>}

(* the characters of line n of ls as tokens <<character, line, column>>,   *)
(* lines counted from 1 and columns from 0                                 *)
LineTokens(ls, n) == [k \in 1..Len(ls[n]) |-> <<ls[n][k], n, k - 1>>]

(* all the tokens of ls, line by line and left to right *)
RECURSIVE TokensUpTo(_, _)
TokensUpTo(ls, n) == IF n = 0 THEN <<>> ELSE TokensUpTo(ls, n - 1) \o LineTokens(ls, n)

Tokens(ls) == TokensUpTo(ls, Len(ls))

IsBracketToken(t) == t[1] \in Openers \cup Closers
IsOpenerToken(t) == t[1] \in Openers

BracketTokens(ts) == SelectSeq(ts, IsBracketToken)

(* ts without the tokens k and k + 1 *)
DropPair(ts, k) == SubSeq(ts, 1, k - 1) \o SubSeq(ts, k + 2, Len(ts))

(* the places of ts where an opener is followed at once by its closer *)
AdjacentPairs(ts) == {k \in 1..(Len(ts) - 1) : <<ts[k][1], ts[k + 1][1]>> \in Pairs}

(* ts after deleting adjacent '()', '[]', '{}' pairs until none is left *)
RECURSIVE Reduce(_)
Reduce(ts) ==
    IF AdjacentPairs(ts) = {} THEN ts
    ELSE Reduce(DropPair(ts, CHOOSE k \in AdjacentPairs(ts) : \A m \in AdjacentPairs(ts) : k <= m))

WellNested(ts) == Reduce(BracketTokens(ts)) = <<>>

(* the openers of ts that no later closer of ts closes *)
PendingOpeners(ts) == SelectSeq(Reduce(BracketTokens(ts)), IsOpenerToken)

(* the tokens examined so far *)
Scanned == SubSeq(Tokens(lines), 1, Len(examined))

(* the token to examine next, when there is one *)
AtToken == pc = "scan" /\ Len(examined) < Len(Tokens(lines))
Cur == Tokens(lines)[Len(examined) + 1]
Top == stack[Len(stack)]

(* token k of ts is a closer that the openers pending before it do not accept *)
ErrorAt(ts, k) ==
    /\ ts[k][1] \in Closers
    /\ LET pend == PendingOpeners(SubSeq(ts, 1, k - 1))
       IN pend = <<>> \/ <<pend[Len(pend)][1], ts[k][1]>> \notin Pairs

(* the content without its non-bracket characters *)
IsBracketChar(c) == c \in Openers \cup Closers
Stripped(s) == SelectSeq(s, IsBracketChar)

(* what a printed line says *)
IsExtraLine(m) == m[1] = "Extra closing bracket '"
IsMismatchLine(m) == m[1] = "Mismatched brackets: '"
IsUnclosedHeader(m) == m[1] = "Unclosed brackets:"
IsUnclosedLine(m) == m[1] = "  '"
IsBalancedLine(m) == m[1] = "Brackets are balanced"

Printed(P(_)) == \E k \in 1..Len(out) : P(out[k])

(***************************************************************************)
(* C1: the call returns True if and only if the bracket characters of the  *)
(* input, read line by line and left to right, reduce to nothing by        *)
(* deleting adjacent '()', '[]', '{}' pairs; and it returns True exactly   *)
(* when every character was examined, no extra closer or mismatch was      *)
(* reported and the stack is empty at the end.                             *)
(***************************************************************************)
C1_BalancedIffWellNested ==
    pc = "done" =>
        /\ result \in {"True", "False"}
        /\ (result = "True") <=> WellNested(Tokens(lines))
        /\ (result = "True") <=>
               /\ Len(examined) = Len(content)
               /\ ~Printed(IsExtraLine)
               /\ ~Printed(IsMismatchLine)
               /\ stack = <<>>

C1_Witness ==
    /\ pc = "done"
    /\ result = "True"
    /\ Len(BracketTokens(Tokens(lines))) = 4
    /\ Len(lines) = 1

(***************************************************************************)
(* C2: while the scan has not stopped, the stack holds exactly the openers *)
(* scanned so far that no matching closer has closed, one record each, in  *)
(* the order they were opened (oldest at the bottom).                      *)
(***************************************************************************)
C2_StackIsPendingOpeners ==
    pc = "scan" => stack = PendingOpeners(Scanned)

C2_Witness ==
    /\ pc = "scan"
    /\ content = <<"(", ")", "[", "{">>
    /\ Len(examined) = 4
    /\ stack = <<(<<"[", 1, 2>>), (<<"{", 1, 3>>)>>


(***************************************************************************)
(* C3: a closing bracket met while the stack is non-empty and its top is   *)
(* an opener of another type is reported at once as a mismatch citing the  *)
(* top record (the most recently opened pending bracket, with its own line *)
(* and column) and the closer with its own line and column, and False is   *)
(* returned; "([)]" is reported as '[' against ')', not as balanced.       *)
(***************************************************************************)
C3_MismatchCitesTop ==
    [][ /\ (AtToken /\ Cur[1] \in Closers /\ stack # <<>> /\ <<Top[1], Cur[1]>> \notin Pairs)
           => /\ pc' = "done"
              /\ result' = "False"
              /\ Top = PendingOpeners(Scanned)[Len(PendingOpeners(Scanned))]
              /\ out' = Append(out, <<"Mismatched brackets: '", Top[1], "' at line ", Top[2],
                                      ", column ", Top[3], " and '", Cur[1], "' at line ",
                                      Cur[2], ", column ", Cur[3]>>)
        /\ (content = <<"(", "[", ")", "]">> /\ pc' = "done")
           => /\ result' = "False"
              /\ out' = << <<"Mismatched brackets: '", "[", "' at line ", 1, ", column ", 1,
                             " and '", ")", "' at line ", 1, ", column ", 2>> >>
      ]_vars

C3_Witness ==
    /\ pc = "done"
    /\ Len(lines) = 2
    /\ Printed(IsMismatchLine)
    /\ stack # <<>>

(***************************************************************************)
(* C4: a closing bracket met while the stack is empty is reported as an    *)
(* extra closing bracket with its character, its line counted from 1 and   *)
(* its column counted from 0, and False is returned; the scan goes on      *)
(* after a closer only if the stack was non-empty with a top opener of     *)
(* the matching type.                                                      *)
(***************************************************************************)
C4_ExtraClosingReport ==
    [][ /\ (AtToken /\ Cur[1] \in Closers /\ stack = <<>>)
           => /\ pc' = "done"
              /\ result' = "False"
              /\ out' = Append(out, <<"Extra closing bracket '", Cur[1], "' at line ", Cur[2],
                                      ", column ", Cur[3]>>)
        /\ (AtToken /\ Cur[1] \in Closers /\ pc' = "scan")
           => /\ stack # <<>>
              /\ <<Top[1], Cur[1]>> \in Pairs
      ]_vars

C4_Witness ==
    /\ pc = "done"
    /\ out = << <<"Extra closing bracket '", "}", "' at line ", 2, ", column ", 1>> >>

(***************************************************************************)
(* C5: the error reported is the first one in scan order and the scan      *)
(* stops there: after an extra closer or a mismatch at position p exactly  *)
(* the characters up to p were examined, one line was printed, it cites    *)
(* the closer at p, no closer before p was in error, and every input that  *)
(* agrees with this one up to p gives the same output and result.          *)
(***************************************************************************)
C5_FirstErrorStops ==
    (pc = "done" /\ (Printed(IsExtraLine) \/ Printed(IsMismatchLine))) =>
        LET ts == Tokens(lines)
            n == Len(examined)
        IN /\ Len(out) = 1
           /\ n >= 1 /\ n <= Len(ts)
           /\ examined = [k \in 1..n |-> <<ts[k][2], ts[k][3]>>]
           /\ ErrorAt(ts, n)
           /\ \A k \in 1..(n - 1) : ~ErrorAt(ts, k)
           /\ LET m == out[1]
              IN <<m[Len(m) - 4], m[Len(m) - 2], m[Len(m)]>> = ts[n]
           /\ \A suffix \in Suffixes :
                 LET r == check_parentheses_balance(SubSeq(content, 1, n) \o suffix)
                 IN r.out = out /\ r.result = result /\ r.ctl = "return"

C5_Witness ==
    /\ pc = "done"
    /\ content = <<"(", "]", ")">>
    /\ Len(examined) = 2
    /\ Printed(IsMismatchLine)

(***************************************************************************)
(* C6: when the end of the input is reached without an error, a non-empty  *)
(* stack gives the result False and the "Unclosed brackets:" listing of    *)
(* every record left on the stack, with the character, line and column it  *)
(* was pushed with, from the bottom to the top, that is in the order the   *)
(* brackets were opened; an empty stack gives "Brackets are balanced".     *)
(***************************************************************************)
C6_EndOfInput ==
    [][ (pc = "scan" /\ Len(examined) = Len(Tokens(lines))) =>
           /\ pc' = "done"
           /\ stack = PendingOpeners(Tokens(lines))
           /\ IF stack # <<>>
              THEN /\ result' = "False"
                   /\ out' = out \o << <<"Unclosed brackets:">> >> \o
                             [k \in 1..Len(stack) |->
                                <<"  '", stack[k][1], "' at line ", stack[k][2],
                                  ", column ", stack[k][3]>>]
              ELSE /\ result' = "True"
                   /\ out' = Append(out, <<"Brackets are balanced">>)
      ]_vars

C6_Witness ==
    /\ pc = "done"
    /\ content = <<"(", "[", "{">>
    /\ out = << <<"Unclosed brackets:">>,
                <<"  '", "(", "' at line ", 1, ", column ", 0>>,
                <<"  '", "[", "' at line ", 1, ", column ", 1>>,
                <<"  '", "{", "' at line ", 1, ", column ", 2>> >>

(***************************************************************************)
(* C7: unclosed openers are reported only at the end of the input: when an *)
(* extra closer or a mismatch is reported, the openers then pending on the *)
(* stack are not listed as unclosed.                                       *)
(***************************************************************************)
C7_UnclosedOnlyAtEnd ==
    /\ (Printed(IsUnclosedHeader) \/ Printed(IsUnclosedLine))
          => /\ Len(examined) = Len(Tokens(lines))
             /\ ~Printed(IsExtraLine)
             /\ ~Printed(IsMismatchLine)
    /\ (pc = "done" /\ (Printed(IsExtraLine) \/ Printed(IsMismatchLine)))
          => /\ ~Printed(IsUnclosedHeader)
             /\ ~Printed(IsUnclosedLine)
             /\ Len(out) = 1

C7_Witness ==
    /\ pc = "done"
    /\ content = <<"(", "(", "]">>
    /\ stack = << <<"(", 1, 0>> >>
    /\ Len(out) = 1
    /\ IsMismatchLine(out[1])

(* what a printed line says and the bracket characters it cites, without   *)
(* the positions                                                           *)
Cited(m) ==
    IF Len(m) = 12 THEN <<m[1], m[2], m[8]>>
    ELSE IF Len(m) = 6 THEN <<m[1], m[2]>>
    ELSE <<m[1]>>

(* the output o and the result res against the outcome r of another call *)
SameOutcome(o, res, r) ==
    /\ res = r.result
    /\ Len(o) = Len(r.out)
    /\ \A k \in 1..Len(o) : Cited(o[k]) = Cited(r.out[k])

(***************************************************************************)
(* C8: a character other than the six brackets never changes the stack,    *)
(* prints nothing and does not end the scan; the kind of outcome and the   *)
(* bracket characters it cites are those of the call on the same input     *)
(* with all non-bracket characters removed.                                *)
(***************************************************************************)
C8_NonBracketsIgnored ==
    [][ /\ (AtToken /\ Cur[1] \notin Openers \cup Closers)
           => /\ stack' = stack
              /\ out' = out
              /\ result' = result
              /\ pc' = "scan"
        /\ (pc' = "done")
           => SameOutcome(out', result', check_parentheses_balance(Stripped(content)))
      ]_vars

C8_Witness ==
    /\ pc = "done"
    /\ content = <<"a", "(", "\n", "]">>
    /\ Len(out) = 1
    /\ Cited(out[1]) = <<"Mismatched brackets: '", "(", "]">>

(* the record <<c, n, k>> names the character c at line n (from 1) and     *)
(* column k (from 0) of the lines read                                     *)
RecordOK(rec) ==
    /\ rec[2] \in 1..Len(lines)
    /\ rec[3] \in 0..(Len(lines[rec[2]]) - 1)
    /\ lines[rec[2]][rec[3] + 1] = rec[1]

PositionsOK ==
    /\ \A k \in 1..Len(stack) : RecordOK(stack[k])
    /\ \A k \in 1..Len(out) :
          LET m == out[k]
          IN /\ Len(m) >= 6 => RecordOK(<<m[2], m[4], m[6]>>)
             /\ Len(m) = 12 => RecordOK(<<m[8], m[10], m[12]>>)

(***************************************************************************)
(* C9: lines are counted from 1 and columns from 0: every record (c, i, j) *)
(* on the stack and every position cited in a printed line satisfies       *)
(* lines[i-1][j] = c.  The stack is not reset at a line boundary: the step *)
(* on the last character of a line keeps every record below the top, and   *)
(* a closer is matched against an opener of an earlier line.               *)
(***************************************************************************)
C9_PositionsAndLines ==
    /\ []PositionsOK
    /\ [][ /\ (AtToken /\ pc' = "scan" /\ Cur[3] = Len(lines[Cur[2]]) - 1)
              => /\ Len(stack') >= Len(stack) - 1
                 /\ SubSeq(stack', 1, Len(stack) - 1) = SubSeq(stack, 1, Len(stack) - 1)
           /\ (AtToken /\ Cur[1] \in Closers /\ stack # <<>> /\ Top[2] < Cur[2] /\
               <<Top[1], Cur[1]>> \in Pairs)
              => /\ pc' = "scan"
                 /\ stack' = SubSeq(stack, 1, Len(stack) - 1)
         ]_vars

C9_Witness ==
    /\ pc = "done"
    /\ content = <<"(", "\n", "a", "]">>
    /\ out = << <<"Mismatched brackets: '", "(", "' at line ", 1, ", column ", 0,
                  " and '", "]", "' at line ", 2, ", column ", 1>> >>

(***************************************************************************)
(* C10: whatever the characters, the scan raises nothing: once the file    *)
(* was read the call goes on until it returns a boolean with exactly one   *)
(* of the four outcomes, and a malformed bracket structure is returned as  *)
(* False.                                                                  *)
(***************************************************************************)
C10_NeverRaises ==
    /\ exc # "none" => (exc = "OSError" /\ pc = "raised" /\ examined = <<>> /\ out = <<>>)
    /\ pc = "raised" => exc # "none"
    /\ pc = "scan" => ENABLED Next
    /\ pc = "done" =>
          /\ exc = "none"
          /\ result \in {"True", "False"}
          /\ Cardinality({k \in 1..Len(out) :
                 IsBalancedLine(out[k]) \/ IsExtraLine(out[k]) \/
                 IsMismatchLine(out[k]) \/ IsUnclosedHeader(out[k])}) = 1
          /\ (result = "True") <=> Printed(IsBalancedLine)
          /\ (result = "False") <=> ~WellNested(Tokens(lines))

C10_Witness ==
    /\ pc = "done"
    /\ result = "False"
    /\ Len(lines) = 2
    /\ Printed(IsUnclosedHeader)
    /\ Len(out) = 3

(* the printed lines that announce an outcome *)
IsOutcomeLine(m) ==
    IsBalancedLine(m) \/ IsExtraLine(m) \/ IsMismatchLine(m) \/ IsUnclosedHeader(m)

OutcomeLines == {k \in 1..Len(out) : IsOutcomeLine(out[k])}

(***************************************************************************)
(* C11: a run prints exactly one outcome message: the balanced line if and *)
(* only if True is returned, otherwise exactly one of the extra-closing    *)
(* line, the mismatch line, or the unclosed header followed by exactly one *)
(* line per record left on the stack; never two outcome messages.          *)
(***************************************************************************)
C11_OneOutcomeMessage ==
    /\ Cardinality(OutcomeLines) <= 1
    /\ pc # "done" => out = <<>>
    /\ pc = "done" =>
          /\ OutcomeLines = {1}
          /\ IsBalancedLine(out[1]) <=> (result = "True")
          /\ (IsBalancedLine(out[1]) \/ IsExtraLine(out[1]) \/ IsMismatchLine(out[1]))
                => Len(out) = 1
          /\ IsUnclosedHeader(out[1]) =>
                /\ Len(out) = 1 + Len(stack)
                /\ stack # <<>>
                /\ \A k \in 1..Len(stack) :
                      out[k + 1] = <<"  '", stack[k][1], "' at line ", stack[k][2],
                                     ", column ", stack[k][3]>>

C11_Witness ==
    /\ pc = "done"
    /\ Len(lines) = 1
    /\ IsUnclosedHeader(out[1])
    /\ Len(out) = 3
    /\ result = "False"

(***************************************************************************)
(* C14: when the file cannot be opened or read the exception leaves the    *)
(* call: nothing is scanned, nothing is printed, nothing is returned, no   *)
(* content is substituted and the read is not tried again.                 *)
(***************************************************************************)
C14_ReadFailurePropagates ==
    /\ [](exc = "OSError" =>
             /\ pc = "raised"
             /\ lines = <<>>
             /\ examined = <<>>
             /\ stack = <<>>
             /\ out = <<>>
             /\ result = "unset")
    /\ [][ /\ (pc = "start" /\ pc' # "scan") => (pc' = "raised" /\ exc' = "OSError")
           /\ pc = "raised" => UNCHANGED vars
         ]_vars

C14_Witness ==
    /\ pc = "raised"
    /\ exc = "OSError"
    /\ content = <<"(", ")">>
    /\ out = <<>>

(***************************************************************************)
(* C15: the scan is one linear pass that terminates: the characters are    *)
(* examined in order, each at most once, one per step; the scan ends at    *)
(* the first error or after the last character, so at most N characters    *)
(* of an input of N characters are examined; every call ends.              *)
(***************************************************************************)
C15_LinearPassTerminates ==
    /\ [](/\ Len(examined) <= Len(Tokens(lines))
          /\ Len(examined) <= Len(content)
          /\ examined = [k \in 1..Len(examined) |->
                            <<Tokens(lines)[k][2], Tokens(lines)[k][3]>>]
          /\ pc = "done" =>
                \/ Len(examined) = Len(Tokens(lines))
                \/ /\ Printed(IsExtraLine) \/ Printed(IsMismatchLine)
                   /\ ErrorAt(Tokens(lines), Len(examined)))
    /\ [][ /\ Len(examined') <= Len(examined) + 1
           /\ SubSeq(examined', 1, Len(examined)) = examined
           /\ pc' = "scan" /\ pc = "scan" => Len(examined') = Len(examined) + 1
         ]_vars
    /\ <>(pc \in {"done", "raised"})

C15_Witness ==
    /\ pc = "done"
    /\ Len(examined) = 4
    /\ Len(lines) = 2
    /\ result = "True"
    /\ Len(BracketTokens(Tokens(lines))) = 2

(***************************************************************************)
(* C12: a call on an input gives the same boolean and the same printed     *)
(* lines (characters and positions) as every earlier call on that input:   *)
(* every call starts with an empty stack and reads nothing an earlier call *)
(* wrote.                                                                  *)
(***************************************************************************)
C12_SameResultTwice ==
    /\ pc = "start" => (stack = <<>> /\ lines = <<>> /\ examined = <<>> /\ out = <<>>)
    /\ pc = "done" =>
          \A k \in 1..Len(prev) : prev[k].result = result /\ prev[k].out = out

C12_Witness ==
    /\ pc = "done"
    /\ Len(prev) = 1
    /\ content = <<"(", "[", "]">>
    /\ prev[1].out = << <<"Unclosed brackets:">>,
                        <<"  '", "(", "' at line ", 1, ", column ", 0>> >>
    /\ out = prev[1].out

(* a step of the second call, a step of the first call *)
PeerStepped == peer' # peer
FirstStepped == <<pc, i, j, examined>>' # <<pc, i, j, examined>>

(***************************************************************************)
(* C13: two calls running at the same time on any two inputs do not        *)
(* disturb each other: under every interleaving a step of one call leaves  *)
(* the stack and the other names of the other call unchanged, and each     *)
(* call returns the result and prints the lines of the call run alone.     *)
(***************************************************************************)
C13_ConcurrentCallsIndependent ==
    /\ [](pc = "done" =>
             /\ result = check_parentheses_balance(content).result
             /\ out = check_parentheses_balance(content).out)
    /\ [](peer.pc = "done" =>
             /\ peer.result = check_parentheses_balance(peer.content).result
             /\ peer.out = check_parentheses_balance(peer.content).out)
    /\ [][ /\ PeerStepped => UNCHANGED scanvars
           /\ FirstStepped => UNCHANGED peer
         ]_vars

C13_Witness ==
    /\ pc = "done"
    /\ peer.pc = "done"
    /\ content = <<"(", ")">>
    /\ peer.content = <<")", "(">>
    /\ result = "True"
    /\ peer.result = "False"

(***************************************************************************)
(* C16: the script checks the file named by the first command-line         *)
(* argument when there is one and the file "guide/validation.py"           *)
(* otherwise; one file is checked per run and further arguments are        *)
(* ignored.                                                                *)
(***************************************************************************)
C16_FileFromFirstArgument ==
    /\ [](Len(checked) <= 1)
    /\ [](pc # "main" =>
             /\ Len(checked) = 1
             /\ checked[1] = filename
             /\ filename = (IF Len(argv) >= 2 THEN argv[2] ELSE "guide/validation.py")
             /\ content = files[filename])
    /\ [](pc = "exited" /\ exc = "none" =>
             /\ result = check_parentheses_balance(files[filename]).result
             /\ out = check_parentheses_balance(files[filename]).out)
    /\ [][UNCHANGED <<argv, files>> /\ (pc # "main" => UNCHANGED <<filename, checked, content>>)]_vars

C16_Witness ==
    /\ pc = "exited"
    /\ Len(argv) = 3
    /\ argv[2] # argv[3]
    /\ files[argv[2]] # files[argv[3]]
    /\ checked = <<argv[2]>>
    /\ content = files[argv[2]]

(***************************************************************************)
(* C17: the script drops the boolean returned by the function: the exit    *)
(* status is the same after a balanced file and after every structural     *)
(* violation, and differs only when an exception leaves the script.        *)
(***************************************************************************)
C17_ExitStatusIgnoresResult ==
    /\ pc # "exited" => status = -1
    /\ pc = "exited" =>
          /\ result \in {"True", "False"} => status = 0
          /\ (status # 0) <=> (exc # "none")

C17_Witness ==
    /\ pc = "exited"
    /\ result = "False"
    /\ Printed(IsMismatchLine)
    /\ status = 0

(***************************************************************************)
(* Vocabulary of the properties of GitBranching, defined on the commands   *)
(* that were executed.                                                     *)
(***************************************************************************)
CreateOps == {"create_feature_branch", "create_bugfix_branch", "create_hotfix_branch"}

(* the base the branching strategy prescribes for the branches of a method *)
PrescribedBase(op) ==
    IF op = "create_feature_branch" THEN <<"dev">> ELSE <<"main">>

PrefixedName(op, name) ==
    CASE op = "create_feature_branch" -> <<"feature/", name>>
      [] op = "create_bugfix_branch" -> <<"bugfix/", name>>
      [] op = "create_hotfix_branch" -> <<"hotfix/", name>>
      [] op = "merge_feature_to_dev" -> <<"feature/", name>>

Ran(log, k, words) == k \in 1..Len(log) /\ log[k].cmd[1] = words

Succeeded(log, k) == k \in 1..Len(log) /\ log[k].ok

(* the commands of log before position k all succeeded *)
AllBeforeSucceeded(log, k) == \A m \in 1..(k - 1) : log[m].ok

(***************************************************************************)
(* C18: a create_* method runs "checkout -b" only for its prefixed name    *)
(* and only after the checkout of its prescribed base succeeded (dev for   *)
(* features, main for bugfixes and hotfixes), with "git pull" in between   *)
(* exactly when the base existed and had an upstream; every branch that    *)
(* appears was created while the base was checked out; and when the base   *)
(* checkout or the pull fails, no branch is created and                    *)
(* CalledProcessError reaches the caller.                                  *)
(***************************************************************************)
C18_BranchOnlyFromBase ==
    [][gitop'[1] \in CreateOps =>
        LET op == gitop'[1]
            b == PrefixedName(op, gitop'[2])
            from == PrescribedBase(op)
            log == executed'
            pulls == from \in branches /\ from \in upstream
        IN  /\ \A k \in 1..Len(log) :
                  Ran(log, k, "git checkout -b") =>
                      /\ log[k].cmd = <<"git checkout -b", b>>
                      /\ log[1] = [cmd |-> <<"git checkout", from>>, ok |-> TRUE]
                      /\ AllBeforeSucceeded(log, k)
                      /\ IF pulls THEN k = 3 /\ log[2].cmd = <<"git pull">> ELSE k = 2
            /\ base' \ base \subseteq {<<b, from>>}
            /\ (branches' \ branches) \ {from} \subseteq {b}
            /\ b \in branches' \ branches => <<b, from>> \in base' /\ head' = b
            /\ (\E k \in 1..Len(log) :
                    /\ log[k].cmd \in {<<"git checkout", from>>, <<"git pull">>}
                    /\ ~log[k].ok)
                 => /\ branches' = branches
                    /\ base' = base
                    /\ gitexc' = "CalledProcessError"
    ]_vars

C18_Witness ==
    /\ gitop = <<"create_bugfix_branch", "x">>
    /\ executed = << [cmd |-> <<"git checkout", <<"main">>>>, ok |-> TRUE],
                     [cmd |-> <<"git pull">>, ok |-> TRUE],
                     [cmd |-> <<"git checkout -b", <<"bugfix/", "x">>>>, ok |-> TRUE] >>
    /\ <<<<"bugfix/", "x">>, <<"main">>>> \in base
    /\ gitexc = "none"

(***************************************************************************)
(* C19: existence is validated before operations: no method of            *)
(* GitBranching executes a checkout or a merge that names a branch which   *)
(* did not exist when the method was called.                               *)
(***************************************************************************)
C19_ExistenceValidated ==
    [][\A k \in 1..Len(executed') :
           executed'[k].cmd[1] \in {"git checkout", "git merge --no-ff"}
               => executed'[k].cmd[2] \in branches
    ]_vars

(***************************************************************************)
(* Vocabulary of the properties of the generated document, defined on its  *)
(* pieces.                                                                 *)
(***************************************************************************)
IsHeading(p) == p.kind = "heading"

Headings == SelectSeq(documentation, IsHeading)

(* the positions in the document of the headings of section number n *)
HeadingsOf(n) == {k \in 1..Len(documentation) : IsHeading(documentation[k]) /\ documentation[k].num = n}

Entries == {<<"security", 0>>, <<"environment", 1>>, <<"code_style", 2>>, <<"modern", 3>>,
            <<"application_design", 4>>, <<"testing", 5>>, <<"validation", 6>>,
            <<"observability", 7>>, <<"containerization", 8>>,
            <<"fast_api_best_practice", 9>>, <<"tasks", 10>>, <<"data_persistence", 11>>,
            <<"ai_ml_practices", 12>>, <<"edge_cases", 13>>}

(* one section per entry of MODULE_MAP, by ascending section number *)
OneSectionPerEntry ==
    /\ Len(Headings) = Cardinality(Entries)
    /\ \A k \in 1..(Len(Headings) - 1) : Headings[k].num < Headings[k + 1].num
    /\ \A e \in Entries : Cardinality(HeadingsOf(e[2])) = 1

(* the piece that follows the heading of section n *)
BodyOf(n) == documentation[(CHOOSE k \in HeadingsOf(n) : TRUE) + 1]

HoldsMarkdownOf(e) ==
    /\ BodyOf(e[2]).kind = "content"
    /\ BodyOf(e[2]).text = <<"markdown of ", e[1]>>

HoldsEmptyMarkdown(e) ==
    /\ BodyOf(e[2]).kind = "content"
    /\ BodyOf(e[2]).text = <<>>

HoldsPlaceholder(e) == BodyOf(e[2]).kind = "placeholder"

(* the generation stops with an exception only at a module that raises    *)
(* something other than an ImportError                                     *)
OnlyOtherErrorsAbort ==
    dpc = "raised" => \E m \in DOMAIN modules : modules[m] \in {"ImportRaises", "CallRaises"}

(***************************************************************************)
(* C20 as stated: the returned document has one section per entry of       *)
(* MODULE_MAP, by ascending number; the section of a module whose          *)
(* generate_markdown() returns markdown holds that markdown, and it holds  *)
(* the placeholder instead when the module cannot be imported or has no    *)
(* module-level generate_markdown; an ImportError never ends the           *)
(* generation.                                                             *)
(***************************************************************************)
C20_SectionHoldsReturnedMarkdown ==
    /\ OnlyOtherErrorsAbort
    /\ dpc = "done" =>
          /\ OneSectionPerEntry
          /\ \A e \in Entries :
                /\ modules[e[1]] = "ReturnsText" => HoldsMarkdownOf(e)
                /\ modules[e[1]] = "ReturnsEmpty" => HoldsEmptyMarkdown(e)
                /\ modules[e[1]] \in {"ImportError", "NoFunction"} => HoldsPlaceholder(e)

(***************************************************************************)
(* C20 as amended: the returned document has one section per entry of      *)
(* MODULE_MAP, by ascending number; a section holds the markdown its       *)
(* module's generate_markdown() returned when that is not empty, and the   *)
(* placeholder when the module cannot be imported, has no module-level     *)
(* generate_markdown, or its generate_markdown() raises ImportError or     *)
(* returns None or the empty string; an ImportError never ends the         *)
(* generation.                                                             *)
(***************************************************************************)
C20_SectionHoldsNonEmptyMarkdown ==
    /\ OnlyOtherErrorsAbort
    /\ dpc = "done" =>
          /\ OneSectionPerEntry
          /\ \A e \in Entries :
                IF modules[e[1]] = "ReturnsText" THEN HoldsMarkdownOf(e) ELSE HoldsPlaceholder(e)

C20_Witness ==
    /\ dpc = "done"
    /\ modules["testing"] = "ImportError"
    /\ modules["validation"] = "ReturnsText"
    /\ HoldsPlaceholder(<<"testing", 5>>)
    /\ HoldsMarkdownOf(<<"validation", 6>>)
    /\ [what |-> "Could not import", name |-> "testing"] \in {doclog[k] : k \in 1..Len(doclog)}

(* the git commands of a log, in order *)
CommandsOf(log) == [k \in 1..Len(log) |-> log[k].cmd]

(***************************************************************************)
(* C21: a create_* method never runs "checkout -b" for a branch that       *)
(* exists: when its prefixed branch exists it runs only "git checkout" of  *)
(* that branch, so a branch once created is only switched to by a later    *)
(* create; and whenever the method returns, what it returns is the command *)
(* that was executed.                                                      *)
(***************************************************************************)
C21_ExistingBranchOnlySwitched ==
    [][gitop'[1] \in CreateOps =>
        LET b == PrefixedName(gitop'[1], gitop'[2])
            log == executed'
        IN  /\ \A k \in 1..Len(log) :
                  Ran(log, k, "git checkout -b") => log[k].cmd[2] \notin branches
            /\ b \in branches =>
                  /\ CommandsOf(log) = << <<"git checkout", b>> >>
                  /\ b \in branches'
                  /\ base' = base
            /\ gitexc' = "none" =>
                  /\ gitret' = CommandsOf(log)
                  /\ \A k \in 1..Len(log) : log[k].ok
                  /\ b \in branches'
                  /\ head' = b
            /\ gitexc' # "none" => gitret' = <<>>
    ]_vars

C21_Witness ==
    /\ ops = 2
    /\ gitop = <<"create_feature_branch", "x">>
    /\ <<<<"feature/", "x">>, <<"dev">>>> \in base
    /\ executed = << [cmd |-> <<"git checkout", <<"feature/", "x">>>>, ok |-> TRUE] >>
    /\ gitret = << <<"git checkout", <<"feature/", "x">>>> >>
    /\ head = <<"feature/", "x">>

(***************************************************************************)
(* C22: merge_feature_to_dev merges with "--no-ff", and only after the     *)
(* checkout of the development branch (and the pull, when that branch has  *)
(* an upstream) succeeded: when that first command fails the exception is  *)
(* raised and no merge is executed, so no merge ever lands on a branch     *)
(* other than the development branch.                                      *)
(***************************************************************************)
C22_MergeOnlyIntoDev ==
    /\ [](\A p \in merged : p[2] = <<"dev">>)
    /\ [][gitop'[1] \in CreateOps => merged' = merged]_vars
    /\ [][gitop'[1] = "merge_feature_to_dev" =>
            LET b == <<"feature/", gitop'[2]>>
                log == executed'
                pulls == <<"dev">> \in branches /\ <<"dev">> \in upstream
                first == IF pulls THEN 2 ELSE 1
            IN  /\ \A k \in 1..Len(log) :
                      log[k].cmd[1] \in {"git merge --no-ff", "git merge"} =>
                          /\ log[k].cmd = <<"git merge --no-ff", b>>
                          /\ k = first + 1
                          /\ k = Len(log)
                          /\ log[1] = [cmd |-> <<"git checkout", <<"dev">>>>, ok |-> TRUE]
                          /\ pulls => log[2] = [cmd |-> <<"git pull">>, ok |-> TRUE]
                /\ merged' \ merged \subseteq {<<b, <<"dev">>>>}
                /\ (\E k \in 1..Len(log) : k <= first /\ ~log[k].ok) =>
                      /\ gitexc' = "CalledProcessError"
                      /\ merged' = merged
                      /\ Len(log) <= first
                /\ gitexc' = "none" =>
                      /\ <<b, <<"dev">>>> \in merged'
                      /\ head' = <<"dev">>
                      /\ Len(log) = first + 1
          ]_vars

C22_Witness ==
    /\ gitop = <<"merge_feature_to_dev", "x">>
    /\ executed = << [cmd |-> <<"git checkout", <<"dev">>>>, ok |-> TRUE],
                     [cmd |-> <<"git pull">>, ok |-> TRUE],
                     [cmd |-> <<"git merge --no-ff", <<"feature/", "x">>>>, ok |-> TRUE] >>
    /\ <<<<"feature/", "x">>, <<"dev">>>> \in merged
    /\ head = <<"dev">>
    /\ gitexc = "none"

(***************************************************************************)
(* Vocabulary of the properties of the todo application, defined on the    *)
(* list and the latest response.                                           *)
(***************************************************************************)
Started == apc \in {"running", "stopped"}

IdsOf(list) == {list[k].id : k \in 1..Len(list)}

DistinctIds(list) == \A k, m \in 1..Len(list) : k # m => list[k].id # list[m].id

(* this step is the answer with the given status to a request of the kind *)
AnswersNow(kind, code) ==
    /\ response' # response
    /\ response'[1].op = kind
    /\ response'[1].status = code

Largest(S) == CHOOSE m \in S : \A n \in S : n <= m

(* list without its k-th item *)
Without(list, k) == [m \in 1..(Len(list) - 1) |-> IF m < k THEN list[m] ELSE list[m + 1]]

C24_IdNeverReused ==
    \A k, m \in 1..Len(assigned) : k # m => assigned[k] # assigned[m]

(* the request that this step answers *)
AnsweredRequest == CHOOSE r \in pending : r.n = response'[1].n

(* the position of the item of list that has the id *)
PositionOf(list, id) == CHOOSE k \in 1..Len(list) : list[k].id = id

CreatedIds == SubSeq(assigned, Len(StartupTodos) + 1, Len(assigned))

(***************************************************************************)
(* C26: under every interleaving of the handlers and of the background     *)
(* tasks the list is not corrupted: the ids in the list stay pairwise      *)
(* distinct, no two create_todo requests obtain the same id, and an update *)
(* or delete acts on the position that holds the id when it acts.          *)
(***************************************************************************)
C26_InterleavingsSafe ==
    /\ [](Started => DistinctIds(todos))
    /\ [](\A k, m \in 1..Len(CreatedIds) : k # m => CreatedIds[k] # CreatedIds[m])
    /\ [][AnswersNow("update_todo", 200) =>
            LET k == PositionOf(todos, response'[1].todo_id)
            IN  \A m \in 1..Len(todos) : m # k => todos'[m] = todos[m]
         ]_vars
    /\ [][AnswersNow("delete_todo", 204) =>
            todos' = Without(todos, PositionOf(todos, response'[1].todo_id))
         ]_vars

(* the pieces of the document of a kind, in order *)
PiecesOf(kind) == SelectSeq(documentation, LAMBDA p : p.kind = kind)

(***************************************************************************)
(* C27: in the returned document every entry of the table of contents,     *)
(* of a standard or of a special module, links to an anchor that the body  *)
(* emits with the same section number and slug, and the entries are in     *)
(* ascending order of section number.                                      *)
(***************************************************************************)
C27_TocLinksResolve ==
    dpc = "done" =>
        LET toc == PiecesOf("toc")
            anchors == PiecesOf("anchor")
        IN  /\ Len(toc) = Len(MODULE_MAP) + Len(SPECIAL_MODULES)
            /\ \A k \in 1..(Len(toc) - 1) : toc[k].num <= toc[k + 1].num
            /\ \A k \in 1..Len(toc) :
                   \E a \in 1..Len(anchors) :
                       /\ anchors[a].num = toc[k].num
                       /\ anchors[a].slug = toc[k].slug

(***************************************************************************)
(* Vocabulary of the properties of composed files.                         *)
(***************************************************************************)
NewlinesIn(s) == Cardinality({k \in 1..Len(s) : s[k] = "\n"})

(* the number of characters of s after its last line terminator *)
AfterLastNewline(s) ==
    IF NewlinesIn(s) = 0 THEN Len(s)
    ELSE Len(s) - (CHOOSE k \in 1..Len(s) : s[k] = "\n" /\ \A m \in (k + 1)..Len(s) : s[m] # "\n")

Matching == {<<"(", ")">>, <<"[", "]">>, <<"{", "}">>}

(***************************************************************************)
(* C28: when the function returns True for A and for B it returns True for *)
(* A followed by B and for A enclosed in a matching pair of brackets; for  *)
(* A enclosed in an opening and a closing bracket of different types it    *)
(* returns False with the mismatch line that cites the added opener, at    *)
(* line 1, column 0, and the added closer at its position.                 *)
(***************************************************************************)
C28_ClosedUnderJoinAndEnclose ==
    (/\ pc = "done"
     /\ exc = "none"
     /\ shape.kind \in {"joined", "enclosed"}
     /\ check_parentheses_balance(partA).result = "True"
     /\ check_parentheses_balance(partB).result = "True") =>
        IF shape.kind = "joined" \/ <<shape.open, shape.close>> \in Matching
        THEN /\ result = "True"
             /\ out = << <<"Brackets are balanced">> >>
        ELSE /\ result = "False"
             /\ out = << <<"Mismatched brackets: '", shape.open, "' at line ", 1, ", column ", 0,
                            " and '", shape.close, "' at line ", 1 + NewlinesIn(partA),
                            ", column ",
                            IF NewlinesIn(partA) = 0 THEN Len(partA) + 1
                            ELSE AfterLastNewline(partA)>> >>

C28_Witness ==
    /\ pc = "done"
    /\ shape = [kind |-> "enclosed", open |-> "(", close |-> "]"]
    /\ partA = <<"{", "\n", "}">>
    /\ result = "False"
    /\ out = << <<"Mismatched brackets: '", "(", "' at line ", 1, ", column ", 0,
                  " and '", "]", "' at line ", 2, ", column ", 1>> >>

(* the number of tokens of ts that satisfy P *)
CountOf(ts, P(_)) == Cardinality({k \in 1..Len(ts) : P(ts[k])})

IsCloserToken(t) == t[1] \in Closers

(***************************************************************************)
(* C29: while the scan goes on, the depth of the stack is the number of    *)
(* opening brackets scanned minus the number of closing brackets scanned;  *)
(* closing brackets scanned never outnumber the opening ones, the depth    *)
(* never exceeds the number of opening brackets of the input, and a step   *)
(* changes the depth by at most one.                                       *)
(***************************************************************************)
C29_DepthIsOpensMinusCloses ==
    /\ [](pc = "scan" =>
            /\ Len(stack) = CountOf(Scanned, IsOpenerToken) - CountOf(Scanned, IsCloserToken)
            /\ CountOf(Scanned, IsCloserToken) <= CountOf(Scanned, IsOpenerToken))
    /\ [](pc \in {"scan", "done"} => Len(stack) <= CountOf(Tokens(lines), IsOpenerToken))
    /\ [][Len(stack') - Len(stack) \in {-1, 0, 1}]_vars

C29_Witness ==
    /\ pc = "scan"
    /\ content = <<"(", "[", "]", "a">>
    /\ Len(examined) = 3
    /\ Len(stack) = 1

(* position p comes before position q: an earlier line, or the same line *)
(* and an earlier column                                                  *)
Before(p, q) == p[1] < q[1] \/ (p[1] = q[1] /\ p[2] < q[2])

PositionOfRecord(rec) == <<rec[2], rec[3]>>

(* the positions that the lines of the unclosed listing cite, in order *)
UnclosedPositions ==
    LET listed == SelectSeq(out, IsUnclosedLine)
    IN  [k \in 1..Len(listed) |-> <<listed[k][4], listed[k][6]>>]

(***************************************************************************)
(* C30: the positions of the records on the stack increase strictly from   *)
(* the bottom to the top, in the order of line and then column, and all    *)
(* come before the character being scanned; so a mismatch line cites an    *)
(* opener that comes before the closer, and the unclosed listing is in     *)
(* strictly increasing order of position.                                  *)
(***************************************************************************)
C30_StackPositionsIncrease ==
    /\ pc = "scan" =>
          /\ \A k \in 1..(Len(stack) - 1) :
                 Before(PositionOfRecord(stack[k]), PositionOfRecord(stack[k + 1]))
          /\ AtToken =>
                 \A k \in 1..Len(stack) : Before(PositionOfRecord(stack[k]), <<Cur[2], Cur[3]>>)
    /\ \A k \in 1..Len(out) :
          IsMismatchLine(out[k]) => Before(<<out[k][4], out[k][6]>>, <<out[k][10], out[k][12]>>)
    /\ \A k \in 1..(Len(UnclosedPositions) - 1) :
          Before(UnclosedPositions[k], UnclosedPositions[k + 1])

C30_Witness ==
    /\ pc = "done"
    /\ content = <<"(", "\n", "[", "{">>
    /\ result = "False"
    /\ UnclosedPositions = << <<1, 0>>, <<2, 0>>, <<2, 1>> >>
====
